---- MODULE Spec2Model ----
(***************************************************************************)
(* A model of the libhtp connection parser: the per-direction stream       *)
(* driver (open / request_data / response_data / close), the response      *)
(* state machine of response.rs and the transaction bookkeeping of         *)
(* connection_parser.rs.  Bytes are one-character strings, a chunk is a    *)
(* sequence of bytes or a gap of known length.                             *)
(***************************************************************************)
EXTENDS Integers, Sequences, FiniteSets, TLC

(***************************************************************************)
(* Bounds of the exploration.                                              *)
(***************************************************************************)
MaxChunk == 2
MaxGapLen == 2
MaxClose == 1
MaxDisturbances == 1
FieldLimit == 30
MaxStatusLen == 4
MaxVaried == 2
MaxOccurrences == 68
MaxOther == 2
MaxLines == 3
MaxBodyPieces == 4
MaxBodyChunk == 3
MaxSections == 4
MaxPieces == 3
MaxHostPieces == 4
MaxLongLabels == 4

(***************************************************************************)
(* Byte strings.                                                           *)
(***************************************************************************)
CR == "\r"
LF == "\n"
SP == " "
HT == "\t"
NUL == "\\0"

\* Let(e, LAMBDA x : body) names the value e once, as LET x == e IN body does.
Let(v, F(_)) == F(v)

Min(a, b) == IF a < b THEN a ELSE b

Take(s, n) == SubSeq(s, 1, Min(n, Len(s)))
Drop(s, n) == SubSeq(s, Min(n, Len(s)) + 1, Len(s))

\* Index of the first occurrence of byte b in s, 0 when absent.
IndexOf(s, b) ==
    IF \E i \in 1..Len(s) : s[i] = b
    THEN CHOOSE i \in 1..Len(s) : s[i] = b /\ \A j \in 1..(i - 1) : s[j] # b
    ELSE 0

Upper == <<"A","B","C","D","E","F","G","H","I","J","K","L","M",
           "N","O","P","Q","R","S","T","U","V","W","X","Y","Z">>
Lower == <<"a","b","c","d","e","f","g","h","i","j","k","l","m",
           "n","o","p","q","r","s","t","u","v","w","x","y","z">>

ToLowerByte(b) ==
    IF \E i \in 1..26 : Upper[i] = b
    THEN Lower[CHOOSE i \in 1..26 : Upper[i] = b]
    ELSE b

ToLower(s) == [i \in 1..Len(s) |-> ToLowerByte(s[i])]

EqNoCase(a, b) == ToLower(a) = ToLower(b)

\* Position (1-based) of the first case-insensitive occurrence of pat in s,
\* 0 when absent.
IndexOfNoCase(s, pat) ==
    LET ls == ToLower(s)
        lp == ToLower(pat)
        hit(i) == SubSeq(ls, i, i + Len(lp) - 1) = lp
    IN Let({i \in 1..(Len(s) - Len(pat) + 1) : hit(i)}, LAMBDA cand :
       IF cand = {} THEN 0 ELSE CHOOSE i \in cand : \A j \in cand : i <= j)

Digits == <<"0","1","2","3","4","5","6","7","8","9">>
HexLetters == <<"a","b","c","d","e","f">>

is_ascii_digit(b) == \E i \in 1..10 : Digits[i] = b
DigitVal(b) == (CHOOSE i \in 1..10 : Digits[i] = b) - 1
is_ascii_hexdigit(b) ==
    is_ascii_digit(b) \/ \E i \in 1..6 : HexLetters[i] = ToLowerByte(b)
HexVal(b) ==
    IF is_ascii_digit(b) THEN DigitVal(b)
    ELSE 9 + (CHOOSE i \in 1..6 : HexLetters[i] = ToLowerByte(b))

\* util.rs is_space: SP, HT, CR, LF, VT, FF.
is_space(b) == b \in {SP, HT, CR, LF, "\f"}
\* nom is_space: SP and HT only.
nom_is_space(b) == b \in {SP, HT}

\* Length of the longest prefix of s whose bytes all satisfy the predicate
\* given as the set of positions that satisfy it.
PrefixLen(s, ok(_)) ==
    IF \A i \in 1..Len(s) : ok(s[i]) THEN Len(s)
    ELSE (CHOOSE i \in 1..Len(s) : ~ok(s[i]) /\ \A j \in 1..(i - 1) : ok(s[j])) - 1

RECURSIVE DecValue(_)
DecValue(s) == IF s = <<>> THEN 0
               ELSE 10 * DecValue(SubSeq(s, 1, Len(s) - 1)) + DigitVal(s[Len(s)])

RECURSIVE HexValue(_)
HexValue(s) == IF s = <<>> THEN 0
               ELSE 16 * HexValue(SubSeq(s, 1, Len(s) - 1)) + HexVal(s[Len(s)])

\* Remove all trailing CR / LF bytes.
RECURSIVE chomp(_)
chomp(data) ==
    IF data # <<>> /\ data[Len(data)] \in {CR, LF}
    THEN chomp(SubSeq(data, 1, Len(data) - 1))
    ELSE data

\* take_till_lf: the line up to and including the first LF; ok is FALSE when
\* the data holds no LF.
take_till_lf(data) ==
    LET i == IndexOf(data, LF)
    IN [ok |-> i # 0, line |-> Take(data, i), remaining |-> Drop(data, i)]

is_line_empty(data) == data \in {<<CR>>, <<LF>>, <<CR, LF>>}

is_line_terminator(data, next_no_lf) ==
    \/ is_line_empty(data)
    \/ Len(data) = 2 /\ nom_is_space(data[1]) /\ data[2] = LF /\ next_no_lf

is_line_ignorable(data) == is_line_terminator(data, FALSE)

\* Variant of treat_response_line_as_body that wants the slash as well.
treat_response_line_as_body_slash(data) ==
    LET rest == Drop(data, PrefixLen(data, is_space))
    IN ~(Len(rest) >= 5 /\ ToLower(Take(rest, 5)) = <<"h","t","t","p","/">>)

\* (?i)^\s*http is what makes a line look like a response line.
treat_response_line_as_body(data) ==
    LET rest == Drop(data, PrefixLen(data, is_space))
    IN ~(Len(rest) >= 4 /\ ToLower(Take(rest, 4)) = <<"h","t","t","p">>)


(***************************************************************************)
(* Number parsers (parsers.rs, util.rs).  None is the absent result.       *)
(***************************************************************************)
None == -1

\* util.rs ascii_digits: LWS, anything that is not a digit, digits, LWS.
ascii_digits(input) ==
    LET a == Drop(input, PrefixLen(input, nom_is_space))
        nl == PrefixLen(a, LAMBDA b : ~is_ascii_digit(b))
    IN Let(Drop(a, nl), LAMBDA b0 :
    LET nd == PrefixLen(b0, is_ascii_digit)
        c0 == Drop(b0, nd)
    IN
       [ok |-> nd > 0,
        leading |-> Take(a, nl),
        digits |-> Take(b0, nd),
        trailing |-> Drop(c0, PrefixLen(c0, nom_is_space))])

parse_content_length(input) ==
    Let(ascii_digits(input), LAMBDA r :
       IF r.ok THEN DecValue(r.digits) ELSE None)

\* util.rs hex_digits: LWS, at least one hex digit, LWS.
hex_digits(input) ==
    LET a == Drop(input, PrefixLen(input, nom_is_space))
    IN Let(PrefixLen(a, is_ascii_hexdigit), LAMBDA nd :
    LET c0 == Drop(a, nd)
    IN
       [ok |-> nd > 0,
        digits |-> Take(a, nd),
        trailing |-> Drop(c0, PrefixLen(c0, nom_is_space))])

\* parse_chunked_length: ok with len (None for an empty length) or an error;
\* the value has to fit an i32.
parse_chunked_length(input) ==
    Let(hex_digits(input), LAMBDA r :
    LET z == Drop(r.digits, PrefixLen(r.digits, LAMBDA b : b = "0"))
        fits == Len(z) < 8 \/ (Len(z) = 8 /\ HexVal(z[1]) < 8)
    IN
       IF r.ok /\ fits
       THEN [ok |-> TRUE, len |-> HexValue(r.digits)]
       ELSE [ok |-> FALSE, len |-> None])

\* parsers.rs parse_status: nothing but LWS around the digits, and a value
\* that fits a u16 and lies in 100..999; leading zeros do not count.
parse_status(status) ==
    Let(ascii_digits(status), LAMBDA r :
    LET z == Drop(r.digits, PrefixLen(r.digits, LAMBDA b : b = "0"))
    IN
       IF r.ok /\ r.trailing = <<>> /\ r.leading = <<>>
          /\ Len(z) <= 5 /\ DecValue(z) < 65536
          /\ DecValue(z) >= 100 /\ DecValue(z) <= 999
       THEN DecValue(z) ELSE None)

\* parsers.rs parse_protocol, for the protocol tokens without extra
\* whitespace or leading zeros.
parse_protocol(input) ==
    LET l == ToLower(input)
    IN IF Len(l) >= 5 /\ Take(l, 5) = <<"h","t","t","p","/">>
       THEN (IF Drop(input, 5) = <<"1",".","1">> THEN "V1_1"
             ELSE IF Drop(input, 5) = <<"1",".","0">> THEN "V1_0"
             ELSE IF Drop(input, 5) = <<".","9">> THEN "V0_9"
             ELSE "INVALID")
       ELSE "INVALID"

ProtocolRank(p) ==
    CASE p = "V1_1" -> 11 [] p = "V1_0" -> 10 [] p = "V0_9" -> 9
      [] p = "UNKNOWN" -> -1 [] OTHER -> -2

(***************************************************************************)
(* Header lines (htp_request_generic.rs).                                  *)
(***************************************************************************)
Separators == {"(", ")", "<", ">", "@", ",", ";", ":", "\\", "\"", "/",
               "[", "]", "?", "=", "{", "}", SP, HT}
is_token(b) == b \notin Separators /\ b \notin {CR, LF, "\f", NUL}
is_word_token(data) == \A i \in 1..Len(data) : is_token(data[i])

\* Data without its trailing whitespace.
RECURSIVE take_is_space_trailing(_)
take_is_space_trailing(data) ==
    IF data # <<>> /\ is_space(data[Len(data)])
    THEN take_is_space_trailing(SubSeq(data, 1, Len(data) - 1))
    ELSE data

\* The data before its first NUL byte.
take_until_null(data) ==
    IF IndexOf(data, NUL) = 0 THEN data ELSE Take(data, IndexOf(data, NUL) - 1)

\* parse_request_header_generic: the header record of one line, with the
\* transaction flags and log codes it raises.
parse_header_generic(txflags, line) ==
    LET data == chomp(line)
        colon == IndexOf(data, ":")
    IN Let(Take(data, colon - 1), LAMBDA rawname :
    LET rawvalue == LET v == Drop(data, colon)
                    IN Drop(v, PrefixLen(v, nom_is_space))
        name == take_is_space_trailing(rawname)
        value == take_is_space_trailing(take_until_null(rawvalue))
        fresh == "FIELD_INVALID" \notin txflags
    IN
       IF colon # 0
       THEN [name |-> name, value |-> value,
             \* take_is_space_trailing never fails, so its branch always
             \* raises FIELD_INVALID on the header.
             flags |-> {"FIELD_INVALID"},
             txflags |-> IF ~is_word_token(name)
                         THEN txflags \cup {"FIELD_INVALID"} ELSE txflags,
             logs |-> (IF rawname = <<>> /\ fresh
                         THEN {"INVALID_EMPTY_NAME"} ELSE {})
                      \cup (IF name # rawname /\ fresh
                         THEN {"INVALID_LWS_AFTER_NAME"} ELSE {})
                      \cup (IF ~is_word_token(name) /\ fresh
                         THEN {"HEADER_INVALID"} ELSE {})]
       ELSE [name |-> <<>>, value |-> data,
             flags |-> {"FIELD_UNPARSEABLE"},
             txflags |-> txflags \cup {"FIELD_UNPARSEABLE"},
             logs |-> IF "FIELD_UNPARSEABLE" \notin txflags
                      THEN {"FIELD_MISSING_COLON"} ELSE {}])

\* Position of the header called name (compared without case), 0 if absent.
HeaderIndex(headers, name) ==
    IF \E i \in 1..Len(headers) : EqNoCase(headers[i].name, name)
    THEN CHOOSE i \in 1..Len(headers) :
            /\ EqNoCase(headers[i].name, name)
            /\ \A j \in 1..(i - 1) : ~EqNoCase(headers[j].name, name)
    ELSE 0

HasHeader(headers, name) == HeaderIndex(headers, name) # 0
GetHeader(headers, name) == headers[HeaderIndex(headers, name)]

ContentLengthName == <<"c","o","n","t","e","n","t","-","l","e","n","g","t","h">>
TransferEncodingName ==
    <<"t","r","a","n","s","f","e","r","-","e","n","c","o","d","i","n","g">>
ContentTypeName == <<"c","o","n","t","e","n","t","-","t","y","p","e">>
UpgradeName == <<"u","p","g","r","a","d","e">>
ExpectName == <<"e","x","p","e","c","t">>
Chunked == <<"c","h","u","n","k","e","d">>
Continue100 == <<"1","0","0","-","c","o","n","t","i","n","u","e">>
H2c == <<"h","2","c">>
MultipartByteranges ==
    <<"m","u","l","t","i","p","a","r","t","/","b","y","t","e","r","a","n","g","e","s">>
MaxHeaderRepetitions == 64

\* Variant of process_header_generic in which a repeated header replaces the
\* stored value.
process_header_generic_replacing(headers, reps, header) ==
    Let(HeaderIndex(headers, header.name), LAMBDA i :
       IF i = 0
       THEN [headers |-> Append(headers,
                [name |-> header.name, value |-> header.value,
                 flags |-> header.flags]),
             reps |-> reps, logs |-> {}]
       ELSE [headers |->
                [headers EXCEPT ![i] =
                    [name |-> headers[i].name, value |-> header.value,
                     flags |-> headers[i].flags \cup {"FIELD_REPEATED"}]],
             reps |-> reps, logs |-> {}])

\* Variant: a repeated Content-Length is joined like any other header.
process_header_generic_appending(headers, reps, header) ==
    Let(HeaderIndex(headers, header.name), LAMBDA i :
    LET existing == headers[i]
        first_repeat == "FIELD_REPEATED" \notin existing.flags
    IN IF i = 0
       THEN [headers |-> Append(headers,
                [name |-> header.name, value |-> header.value,
                 flags |-> header.flags]),
             reps |-> reps, logs |-> {}]
       ELSE IF ~first_repeat /\ reps >= MaxHeaderRepetitions
       THEN [headers |-> headers, reps |-> reps, logs |-> {}]
       ELSE [headers |->
                [headers EXCEPT ![i] =
                    [name |-> existing.name,
                     value |-> existing.value \o <<",", SP>> \o header.value,
                     flags |-> existing.flags \cup {"FIELD_REPEATED"}]],
             reps |-> IF first_repeat THEN reps ELSE reps + 1,
             logs |-> IF first_repeat THEN {"HEADER_REPETITION"} ELSE {}])

\* Variant: the repetition limit is not consulted.
process_header_generic_unbounded(headers, reps, header) ==
    Let(HeaderIndex(headers, header.name), LAMBDA i :
    LET existing == headers[i]
        first_repeat == "FIELD_REPEATED" \notin existing.flags
        is_cl == EqNoCase(header.name, ContentLengthName)
    IN IF i = 0
       THEN [headers |-> Append(headers,
                [name |-> header.name, value |-> header.value,
                 flags |-> header.flags]),
             reps |-> reps, logs |-> {}]
       ELSE [headers |->
                [headers EXCEPT ![i] =
                    [name |-> existing.name,
                     value |-> IF is_cl THEN existing.value
                               ELSE existing.value \o <<",", SP>> \o header.value,
                     flags |-> existing.flags \cup {"FIELD_REPEATED"}]],
             reps |-> IF first_repeat THEN reps ELSE reps + 1,
             logs |-> IF first_repeat THEN {"HEADER_REPETITION"} ELSE {}])

\* process_request_header_generic: store one parsed header, coalescing a
\* repeated name into the existing entry.
process_header_generic(headers, reps, header) ==
    Let(HeaderIndex(headers, header.name), LAMBDA i :
    LET existing == headers[i]
        first_repeat == "FIELD_REPEATED" \notin existing.flags
    IN Let(EqNoCase(header.name, ContentLengthName), LAMBDA is_cl :
    Let(parse_content_length(existing.value), LAMBDA ecl :
    Let(parse_content_length(header.value), LAMBDA ncl :
       IF i = 0
       THEN [headers |-> Append(headers,
                [name |-> header.name, value |-> header.value,
                 flags |-> header.flags]),
             reps |-> reps, logs |-> {}]
       ELSE IF ~first_repeat /\ reps >= MaxHeaderRepetitions
       THEN [headers |-> headers, reps |-> reps, logs |-> {}]
       ELSE [headers |->
                [headers EXCEPT ![i] =
                    [name |-> existing.name,
                     value |-> IF is_cl THEN existing.value
                               ELSE existing.value \o <<",", SP>> \o header.value,
                     flags |-> existing.flags \cup {"FIELD_REPEATED"}]],
             reps |-> IF first_repeat THEN reps ELSE reps + 1,
             logs |-> (IF is_cl /\ (ecl = None \/ ncl = None \/ ecl # ncl)
                         THEN {"DUPLICATE_CONTENT_LENGTH_FIELD"} ELSE {})
                      \cup (IF first_repeat THEN {"HEADER_REPETITION"} ELSE {})]))))


(***************************************************************************)
(* Transactions and the parser record.                                     *)
(***************************************************************************)
NewTx(index) ==
    [index |-> index,
     request_progress |-> "NOT_STARTED",
     request_method_number |-> "UNKNOWN",
     request_uri |-> <<>>,
     request_protocol_number |-> "UNKNOWN",
     request_headers |-> <<>>,
     req_header_repetitions |-> 0,
     request_message_len |-> 0,
     request_entity_len |-> 0,
     response_progress |-> "NOT_STARTED",
     response_protocol_number |-> "UNKNOWN",
     response_status_number |-> None,
     response_headers |-> <<>>,
     res_header_repetitions |-> 0,
     response_transfer_coding |-> "UNKNOWN",
     response_content_length |-> None,
     response_content_type |-> <<>>,
     response_message_len |-> 0,
     response_entity_len |-> 0,
     response_ignored_lines |-> 0,
     seen_100continue |-> FALSE,
     is_http_2_upgrade |-> FALSE,
     flags |-> {},
     \* what the body-data hooks have been handed so far
     request_body |-> <<>>,
     response_body |-> <<>>]

\* ConnectionParser::new
NewConnp ==
    [request_status |-> "NEW",
     response_status |-> "NEW",
     response_data_other_at_tx_end |-> FALSE,
     request_curr_data |-> <<>>,
     request_pos |-> 0,
     request_buf |-> <<>>,
     request_header |-> <<>>,
     in_tx |-> None,
     request_content_length |-> 0,
     request_body_data_left |-> 0,
     request_state |-> "IDLE",
     out_next_tx_index |-> 0,
     response_curr_data |-> <<>>,
     response_pos |-> 0,
     response_current_receiver_offset |-> 0,
     response_buf |-> <<>>,
     response_header |-> <<>>,
     out_tx |-> None,
     response_content_length |-> 0,
     response_body_data_left |-> 0,
     response_chunked_length |-> None,
     response_state |-> "IDLE",
     response_state_previous |-> "NONE",
     response_data_receiver_hook |-> "none",
     txs |-> <<>>,
     conn |-> [client |-> None, server |-> None, flags |-> {},
               in_data_counter |-> 0, out_data_counter |-> 0],
     logs |-> {},
     \* bookkeeping of the call in progress: the hook that misbehaves, the
     \* events of the call, and the order in which responses were started
     hk |-> [point |-> "none", rc |-> "OK"],
     ev |-> <<>>,
     res_begun |-> <<>>]

R(c, rc) == [c |-> c, rc |-> rc]
Then(r, F(_)) == IF r.rc = "OK" THEN F(r.c) ELSE r

Log(c, code) == [c EXCEPT !.logs = @ \cup {code}]
Ev(c, e) == [c EXCEPT !.ev = Append(@, e)]

\* Hook::run_all on the named hook point: the handlers answer OK unless the
\* environment made this hook point answer STOP or ERROR for the call.
RunHook(c, point) ==
    R(Ev(c, <<"hook", point>>), IF c.hk.point = point THEN c.hk.rc ELSE "OK")

\* The transaction the response parser works on: the attached one, else the
\* next one to receive a response.
ResponseIndex(c) == IF c.out_tx # None THEN c.out_tx ELSE c.out_next_tx_index
RequestIndex(c) == IF c.in_tx # None THEN c.in_tx ELSE Len(c.txs)

EnsureTx(c, idx) ==
    IF idx >= Len(c.txs) THEN [c EXCEPT !.txs = Append(@, NewTx(Len(@)))] ELSE c

response(c) == c.txs[ResponseIndex(c) + 1]
request(c) == c.txs[RequestIndex(c) + 1]
SetRes(c, f, v) == [c EXCEPT !.txs[ResponseIndex(c) + 1][f] = v]
SetReq(c, f, v) == [c EXCEPT !.txs[RequestIndex(c) + 1][f] = v]

ProgressRank(p) ==
    CASE p = "NOT_STARTED" -> 0 [] p = "GAP" -> 1 [] p = "LINE" -> 2
      [] p = "HEADERS" -> 3 [] p = "BODY" -> 4 [] p = "TRAILER" -> 5
      [] p = "COMPLETE" -> 6 [] OTHER -> 7

in_range(n, lo, hi) == n # None /\ n >= lo /\ n <= hi

response_curr_len(c) == Len(c.response_curr_data)
request_curr_len(c) == Len(c.request_curr_data)

\* Variant of create_tx that does not detect pipelining.
create_tx_undetected(c) ==
    [c EXCEPT !.txs = Append(@, NewTx(Len(c.txs))),
              !.in_tx = Len(c.txs),
              !.request_content_length = -1,
              !.request_body_data_left = -1]

\* create_tx: detects pipelining, appends the transaction, attaches it to
\* the request side and resets the request body counters.
create_tx(c) ==
    LET index == Len(c.txs)
        c1 == IF Len(c.txs) > c.out_next_tx_index
              THEN [c EXCEPT !.conn.flags = @ \cup {"PIPELINED"}] ELSE c
    IN [c1 EXCEPT !.txs = Append(@, NewTx(index)),
                  !.in_tx = index,
                  !.request_content_length = -1,
                  !.request_body_data_left = -1]

(***************************************************************************)
(* Response side helpers (response.rs).                                    *)
(***************************************************************************)
response_receiver_send_data(c, is_last) ==
    IF c.response_data_receiver_hook = "none" THEN R(c, "OK")
    ELSE Then(RunHook(c, c.response_data_receiver_hook),
              LAMBDA d : R([d EXCEPT !.response_current_receiver_offset =
                                        d.response_pos], "OK"))

response_receiver_finalize_clear(c) ==
    IF c.response_data_receiver_hook = "none" THEN R(c, "OK")
    ELSE LET r == response_receiver_send_data(c, TRUE)
         IN R([r.c EXCEPT !.response_data_receiver_hook = "none"], r.rc)

response_receiver_set(c, hook) ==
    Let(response_receiver_finalize_clear(c), LAMBDA r :
       R([r.c EXCEPT !.response_data_receiver_hook = hook,
                     !.response_current_receiver_offset = r.c.response_pos],
         "OK"))

response_handle_state_change(c) ==
    IF c.response_state_previous = c.response_state THEN R(c, "OK")
    ELSE LET r == IF c.response_state = "HEADERS"
                  THEN (CASE response(c).response_progress = "HEADERS" ->
                               response_receiver_set(c, "response_header_data")
                          [] response(c).response_progress = "TRAILER" ->
                               response_receiver_set(c, "response_trailer_data")
                          [] OTHER -> R(c, "OK"))
                  ELSE R(c, "OK")
         IN Then(r, LAMBDA d :
                 R([d EXCEPT !.response_state_previous = d.response_state], "OK"))

\* Variant of check_response_buffer_limit that accepts any amount.
check_response_buffer_limit_off(c, len) == R(c, "OK")

check_response_buffer_limit(c, len) ==
    IF response_curr_len(c) = 0 \/ len = 0 THEN R(c, "OK")
    ELSE IF Len(c.response_buf) + len + Len(c.response_header) > FieldLimit
    THEN R(Log(c, "RESPONSE_FIELD_TOO_LONG"), "ERROR")
    ELSE R(c, "OK")

handle_response_absent_lf(c, data) ==
    Then(check_response_buffer_limit(
            [c EXCEPT !.response_pos = response_curr_len(c)], Len(data)),
         LAMBDA d : R([d EXCEPT !.response_buf = @ \o data], "DATA_BUFFER"))

\* Run the RESPONSE_BODY_DATA hooks; not with an empty chunk.
response_run_hook_body_data(c, len) ==
    IF len = 0 THEN R(c, "OK") ELSE RunHook(c, "response_body_data")

\* Transaction::res_process_body_data without a decompressor: count the
\* bytes and hand them to the body-data hooks.
response_process_body_data_ex(c, data) ==
    LET tx == response(c)
        c1 == [c EXCEPT !.txs[ResponseIndex(c) + 1] =
                 [tx EXCEPT !.response_message_len = @ + Len(data),
                            !.response_entity_len = @ + Len(data),
                            !.response_body = @ \o data]]
    IN response_run_hook_body_data(Ev(c1, <<"decoder", Len(data)>>), Len(data))


(***************************************************************************)
(* Response state handlers (response.rs).  A handler takes the parser and  *)
(* the data of the chunk from the cursor on, and returns the parser with   *)
(* OK (state changed), DATA / DATA_BUFFER (more data needed), DATA_OTHER,  *)
(* STOP or ERROR.                                                          *)
(***************************************************************************)
Seek(c, n) == [c EXCEPT !.response_pos = @ + n]
AddResLen(c, n) ==
    SetRes(c, "response_message_len", response(c).response_message_len + n)

response_body_chunked_data_end(c, data) ==
    Let(take_till_lf(data), LAMBDA t :
       IF t.ok
       THEN R([AddResLen(Seek(c, Len(t.line)), Len(t.line))
                 EXCEPT !.response_state = "BODY_CHUNKED_LENGTH"], "OK")
       ELSE R(AddResLen([c EXCEPT !.response_pos = response_curr_len(c)],
                        Len(data)), "DATA_BUFFER"))

response_body_chunked_data(c, data) ==
    LET bytes_to_consume ==
            Min(Len(data), IF c.response_chunked_length = None THEN 0
                           ELSE c.response_chunked_length)
    IN IF bytes_to_consume = 0 THEN R(c, "DATA")
       ELSE Then(response_process_body_data_ex(c, Take(data, bytes_to_consume)),
                 LAMBDA d :
                   LET d1 == Seek(d, bytes_to_consume)
                       left == d1.response_chunked_length - bytes_to_consume
                   IN IF d1.response_chunked_length = None THEN R(d1, "DATA")
                      ELSE IF left = 0
                      THEN R([d1 EXCEPT !.response_chunked_length = 0,
                                        !.response_state = "BODY_CHUNKED_DATA_END"],
                             "OK")
                      ELSE R([d1 EXCEPT !.response_chunked_length = left], "DATA"))

\* The data seen so far can still become a chunk length line: optional
\* whitespace, then only hex digits, whitespace or an extension.
is_valid_chunked_length_data(data) ==
    LET rest == Drop(data, PrefixLen(data, nom_is_space))
    IN rest = <<>> \/ is_ascii_hexdigit(rest[1]) \/ rest[1] \in {CR, LF}

RECURSIVE response_body_chunked_length(_, _)
response_body_chunked_length(c, data) ==
    Let(take_till_lf(data), LAMBDA t :
       IF t.ok
       THEN LET c1 == Seek(c, Len(t.line))
                lim == IF c1.response_buf # <<>>
                       THEN check_response_buffer_limit(c1, Len(t.line))
                       ELSE R(c1, "OK")
            IN Then(lim, LAMBDA d :
                 IF t.line = <<LF>>
                 THEN response_body_chunked_length(AddResLen(d, 1), t.remaining)
                 ELSE LET line == d.response_buf \o t.line
                          d1 == AddResLen(d, Len(line))
                      IN Let(parse_chunked_length(line), LAMBDA p :
                         IF p.ok
                         THEN R([d1 EXCEPT
                                   !.response_chunked_length = p.len,
                                   !.response_state =
                                       IF p.len = 0 THEN "HEADERS"
                                       ELSE "BODY_CHUNKED_DATA",
                                   !.txs[ResponseIndex(d1) + 1].response_progress =
                                       IF p.len = 0 THEN "TRAILER" ELSE @], "OK")
                         ELSE R(Log([Seek(d1, 0 - Len(t.line)) EXCEPT
                                   !.response_state = "BODY_IDENTITY_STREAM_CLOSE",
                                   !.txs[ResponseIndex(d1) + 1].response_transfer_coding =
                                       "IDENTITY"],
                                  "INVALID_RESPONSE_CHUNK_LEN"), "OK")))
       ELSE IF ~is_valid_chunked_length_data(data)
       THEN R(Log([c EXCEPT
                     !.response_state = "BODY_IDENTITY_STREAM_CLOSE",
                     !.txs[ResponseIndex(c) + 1].response_transfer_coding = "IDENTITY"],
                  "INVALID_RESPONSE_CHUNK_LEN"), "OK")
       ELSE handle_response_absent_lf(c, data))

\* Variant of response_body_identity_cl_known that takes all of the chunk.
response_body_identity_cl_known_greedy(c, chunk) ==
    IF c.response_status = "CLOSED"
    THEN response_process_body_data_ex(
            [c EXCEPT !.response_state = "FINALIZE"], chunk.bytes)
    ELSE LET bytes_to_consume == chunk.len
             fed == IF chunk.gap
                    THEN response_run_hook_body_data(
                            Ev(AddResLen(c, chunk.len), <<"gap", chunk.len>>),
                            chunk.len)
                    ELSE Then(response_process_body_data_ex(
                                 c, Take(chunk.bytes, bytes_to_consume)),
                              LAMBDA d : R(Seek(d, bytes_to_consume), "OK"))
         IN IF bytes_to_consume = 0 THEN R(c, "DATA")
            ELSE Then(fed, LAMBDA d :
                   LET d1 == [d EXCEPT !.response_body_data_left =
                                          @ - Min(bytes_to_consume, @)]
                   IN IF d1.response_body_data_left = 0
                      THEN response_process_body_data_ex(
                              [d1 EXCEPT !.response_state = "FINALIZE"], <<>>)
                      ELSE R(d1, "DATA"))

\* chunk: [gap, len, bytes]; bytes is the data from the cursor on.
response_body_identity_cl_known(c, chunk) ==
    IF c.response_status = "CLOSED"
    THEN response_process_body_data_ex(
            [c EXCEPT !.response_state = "FINALIZE"], chunk.bytes)
    ELSE LET bytes_to_consume ==
                 IF c.response_body_data_left < 0 THEN chunk.len
                 ELSE Min(chunk.len, c.response_body_data_left)
             fed == IF chunk.gap
                    THEN response_run_hook_body_data(
                            Ev(AddResLen(c, chunk.len), <<"gap", chunk.len>>),
                            chunk.len)
                    ELSE Then(response_process_body_data_ex(
                                 c, Take(chunk.bytes, bytes_to_consume)),
                              LAMBDA d : R(Seek(d, bytes_to_consume), "OK"))
         IN IF bytes_to_consume = 0 THEN R(c, "DATA")
            ELSE Then(fed, LAMBDA d :
                   LET d1 == [d EXCEPT !.response_body_data_left =
                                          @ - bytes_to_consume]
                   IN IF d1.response_body_data_left = 0
                      THEN response_process_body_data_ex(
                              [d1 EXCEPT !.response_state = "FINALIZE"], <<>>)
                      ELSE R(d1, "DATA"))

\* Variant of response_body_identity_stream_close that ends the body with
\* the chunk.
response_body_identity_stream_close_eager(c, chunk) ==
    LET fed == IF chunk.gap
               THEN response_run_hook_body_data(
                       Ev(c, <<"gap", chunk.len>>), chunk.len)
               ELSE IF chunk.bytes # <<>>
               THEN Then(response_process_body_data_ex(c, chunk.bytes),
                         LAMBDA d : R([d EXCEPT !.response_pos =
                                                   response_curr_len(d)], "OK"))
               ELSE R(c, "OK")
    IN Then(fed, LAMBDA d : R([d EXCEPT !.response_state = "FINALIZE"], "OK"))

response_body_identity_stream_close(c, chunk) ==
    LET fed == IF chunk.gap
               THEN response_run_hook_body_data(
                       Ev(c, <<"gap", chunk.len>>), chunk.len)
               ELSE IF chunk.bytes # <<>>
               THEN Then(response_process_body_data_ex(c, chunk.bytes),
                         LAMBDA d : R([d EXCEPT !.response_pos =
                                                   response_curr_len(d)], "OK"))
               ELSE R(c, "OK")
    IN Then(fed, LAMBDA d :
            IF d.response_status = "CLOSED"
            THEN R([d EXCEPT !.response_state = "FINALIZE"], "OK")
            ELSE R(d, "DATA"))


\* Transaction::state_response_headers: the raw header data is finalized
\* strictly before the RESPONSE_HEADERS hooks run.
state_response_headers(c) ==
    Then(response_receiver_finalize_clear(c),
         LAMBDA d : RunHook(d, "response_headers"))

\* The content type of a header value: up to the first ';' or whitespace,
\* in lower case.
response_content_type_of(value) ==
    ToLower(Take(value, PrefixLen(value, LAMBDA b : ~(b = ";" \/ is_space(b)))))

\* Variant of is_multipart_byteranges that never tells.
is_multipart_byteranges_never(hs, ct) == FALSE

\* The content type of the response is multipart/byteranges.
is_multipart_byteranges(hs, ct) ==
    HasHeader(hs, ContentTypeName) /\ IndexOfNoCase(ct, MultipartByteranges) # 0

\* Variant of response_chunked_with_length that lets the length pass.
response_chunked_with_length_unflagged(c, has_cl) == c

\* A chunked message that also states a Content-Length violates the RFC.
response_chunked_with_length(c, has_cl) ==
    IF has_cl
    THEN SetRes(c, "flags", response(c).flags \cup {"REQUEST_SMUGGLING"})
    ELSE c

\* Variant of response_body_until_close that expects no body.
response_body_until_close_empty(c) ==
    [SetRes(c, "response_transfer_coding", "IDENTITY") EXCEPT
       !.response_state = "FINALIZE",
       !.response_body_data_left = -1]

\* The body ends when the server closes the connection.
response_body_until_close(c) ==
    [SetRes(SetRes(c, "response_transfer_coding", "IDENTITY"),
            "response_progress", "BODY") EXCEPT
       !.response_state = "BODY_IDENTITY_STREAM_CLOSE",
       !.response_body_data_left = -1]

\* The part of response_body_determine that frames a message with a body.
response_body_framing(c, has_te, has_cl) ==
    LET hs == response(c).response_headers
    IN Let(IF HasHeader(hs, ContentTypeName)
        THEN response_content_type_of(GetHeader(hs, ContentTypeName).value)
        ELSE <<>>, LAMBDA ct :
    LET multipart_byteranges == is_multipart_byteranges(hs, ct)
    IN Let(IF HasHeader(hs, ContentTypeName)
        THEN SetRes(c, "response_content_type", ct) ELSE c, LAMBDA c1 :
    Let(GetHeader(hs, TransferEncodingName), LAMBDA te :
    Let(GetHeader(hs, ContentLengthName), LAMBDA cl :
    Let(parse_content_length(cl.value), LAMBDA len :
       IF has_te /\ IndexOfNoCase(te.value, Chunked) # 0
       THEN Let(IF ~EqNoCase(te.value, Chunked)
                THEN Log(c1, "RESPONSE_ABNORMAL_TRANSFER_ENCODING") ELSE c1, LAMBDA c2 :
            LET c3 == IF ProtocolRank(response(c2).response_protocol_number) < 11
                      THEN Log(c2, "RESPONSE_CHUNKED_OLD_PROTO") ELSE c2
            IN Let(SetRes(c3, "response_transfer_coding", "CHUNKED"), LAMBDA c4 :
            LET c5 == response_chunked_with_length(c4, has_cl)
            IN
               R(SetRes([c5 EXCEPT !.response_state = "BODY_CHUNKED_LENGTH"],
                        "response_progress", "BODY"), "OK")))
       ELSE IF has_cl
       THEN LET c2 == SetRes(c1, "response_transfer_coding", "IDENTITY")
            IN Let(IF "FIELD_REPEATED" \in cl.flags
                THEN SetRes(c2, "flags",
                            response(c2).flags \cup {"REQUEST_SMUGGLING"})
                ELSE c2, LAMBDA c3 :
            LET c4 == [SetRes(c3, "response_content_length", len) EXCEPT
                         !.response_content_length = len,
                         !.response_body_data_left = len]
            IN
               IF len = None
               THEN R(Log(c3, "INVALID_CONTENT_LENGTH_FIELD_IN_RESPONSE"), "ERROR")
               ELSE IF len # 0
               THEN R(SetRes([c4 EXCEPT !.response_state = "BODY_IDENTITY_CL_KNOWN"],
                             "response_progress", "BODY"), "OK")
               ELSE R([c4 EXCEPT !.response_state = "FINALIZE"], "OK"))
       ELSE IF multipart_byteranges
       THEN R(Log(c1, "RESPONSE_MULTIPART_BYTERANGES"), "ERROR")
       ELSE R(response_body_until_close(c1), "OK"))))))

\* Variant of response_http_2_upgrade that takes no note.
response_http_2_upgrade_unnoted(c) == c

\* A "101 Switching Protocols" response whose Upgrade header has h2c in it
\* upgrades to HTTP/2.
response_http_2_upgrade(c) ==
    IF HasHeader(response(c).response_headers, UpgradeName)
       /\ IndexOfNoCase(GetHeader(response(c).response_headers, UpgradeName).value,
                        H2c) # 0
    THEN SetRes(c, "is_http_2_upgrade", TRUE)
    ELSE c

\* Variant of response_expectation_failed that lets the request go on.
response_expectation_failed_ignored(c, status) == c

\* A request can wait for its headers to be validated before it sends its
\* body: a 4xx answer to such a request, none of whose body was seen, ends
\* the request.
response_expectation_failed(c, status) ==
    IF in_range(status, 400, 499)
       /\ c.request_content_length > 0
       /\ c.request_body_data_left = c.request_content_length
       /\ HasHeader(response(c).request_headers, ExpectName)
       /\ GetHeader(response(c).request_headers, ExpectName).value = Continue100
    THEN [c EXCEPT !.request_state = "FINALIZE"]
    ELSE c

\* Variant of response_connect_refused that leaves the request side waiting.
response_connect_refused_waiting(c, status) ==
    IF status = 407 THEN c
    ELSE [c EXCEPT !.response_data_other_at_tx_end = TRUE]

\* Variant of response_connect_refused that unblocks a failed request side
\* as well.
response_connect_refused_forced(c, status) ==
    LET d == [c EXCEPT !.request_status = "DATA"]
    IN IF status = 407 THEN d
       ELSE [d EXCEPT !.response_data_other_at_tx_end = TRUE]

\* The answer to a CONNECT is not 2xx: request parsing is unblocked; unless
\* the proxy asks for authentication, the response parser stops at the end
\* of this transaction.
response_connect_refused(c, status) ==
    LET d == IF c.request_status # "ERROR"
             THEN [c EXCEPT !.request_status = "DATA"] ELSE c
    IN IF status = 407 THEN d
       ELSE [d EXCEPT !.response_data_other_at_tx_end = TRUE]

\* Variant of response_interim_continue that takes any number of interim
\* responses.
response_interim_continue_again(c) ==
    R([c EXCEPT
         !.response_state = "LINE",
         !.txs[ResponseIndex(c) + 1] =
             [@ EXCEPT !.response_headers = <<>>,
                       !.response_progress = "LINE",
                       !.seen_100continue = TRUE]], "OK")

\* Variant of response_interim_continue that keeps the interim headers.
response_interim_continue_kept(c) ==
    IF response(c).seen_100continue
    THEN R(Log(c, "CONTINUE_ALREADY_SEEN"), "ERROR")
    ELSE R([c EXCEPT
              !.response_state = "LINE",
              !.txs[ResponseIndex(c) + 1] =
                  [@ EXCEPT !.response_progress = "LINE",
                            !.seen_100continue = TRUE]], "OK")

\* Variant of response_interim_continue that starts the response over.
response_interim_continue_restart(c) ==
    IF response(c).seen_100continue
    THEN R(Log(c, "CONTINUE_ALREADY_SEEN"), "ERROR")
    ELSE R([c EXCEPT
              !.response_state = "LINE",
              !.txs[ResponseIndex(c) + 1] =
                  [@ EXCEPT !.response_headers = <<>>,
                            !.response_progress = "NOT_STARTED",
                            !.seen_100continue = TRUE]], "OK")

\* An interim "100 Continue" response is ignored: its headers are dropped
\* and another response line is expected; a second one is an error.
response_interim_continue(c) ==
    IF response(c).seen_100continue
    THEN R(Log(c, "CONTINUE_ALREADY_SEEN"), "ERROR")
    ELSE R([c EXCEPT
              !.response_state = "LINE",
              !.txs[ResponseIndex(c) + 1] =
                  [@ EXCEPT !.response_headers = <<>>,
                            !.response_progress = "LINE",
                            !.seen_100continue = TRUE]], "OK")

\* Determines presence (and encoding) of a response body.
response_body_determine(c) ==
    LET tx == response(c)
        hs == tx.response_headers
        status == tx.response_status_number
    IN Let(HasHeader(hs, ContentLengthName), LAMBDA has_cl :
    Let(HasHeader(hs, TransferEncodingName), LAMBDA has_te :
    LET is_connect == tx.request_method_number = "CONNECT"
    IN Let(IF is_connect /\ ~in_range(status, 200, 299)
        THEN response_connect_refused(c, status)
        ELSE c, LAMBDA c1 :
    Let(IF status = 101
        THEN Log(response_http_2_upgrade(c1),
                 "SWITCHING_PROTO_WITH_CONTENT_LENGTH")
        ELSE response_expectation_failed(c1, status), LAMBDA c2 :
    Let(IF tx.request_method_number = "HEAD"
        THEN [SetRes(c2, "response_transfer_coding", "NO_BODY") EXCEPT
                !.response_state = "FINALIZE"]
        ELSE IF in_range(status, 100, 199) \/ status = 204 \/ status = 304
        THEN (IF ~has_te /\ ~has_cl
              THEN [SetRes(c2, "response_transfer_coding", "NO_BODY") EXCEPT
                      !.response_state = "FINALIZE"]
              ELSE Log(c2, "RESPONSE_BODY_UNEXPECTED"))
        ELSE c2, LAMBDA c3 :
       IF is_connect /\ in_range(status, 200, 299)
       THEN state_response_headers([c EXCEPT !.response_state = "FINALIZE"])
       ELSE IF status = 101 /\ ~has_te /\ ~has_cl
       THEN LET d == response_http_2_upgrade(c1)
            IN state_response_headers(
                 [d EXCEPT !.response_state = "FINALIZE",
                           !.request_status = IF @ # "ERROR" THEN "TUNNEL" ELSE @,
                           !.response_status = "TUNNEL"])
       ELSE IF status = 100 /\ status # 101 /\ ~has_te /\ ~has_cl
       THEN response_interim_continue(c1)
       ELSE Then(IF c3.response_state # "FINALIZE"
                 THEN response_body_framing(c3, has_te, has_cl)
                 ELSE R(c3, "OK"),
                 state_response_headers))))))


\* Parse one header line of the response and store it.
AddResponseHeader(c, line) ==
    LET tx == response(c)
    IN Let(parse_header_generic(tx.flags, line), LAMBDA h :
    Let(process_header_generic(tx.response_headers,
                               tx.res_header_repetitions, h), LAMBDA p :
       [c EXCEPT !.txs[ResponseIndex(c) + 1] =
                    [tx EXCEPT !.flags = h.txflags,
                               !.response_headers = p.headers,
                               !.res_header_repetitions = p.reps],
                 !.logs = @ \cup h.logs \cup p.logs]))

\* process_response_headers: store every complete header line of data;
\* eoh tells that the empty line ending the block was read, remaining is
\* what follows it or the incomplete last line.  With complete set, an
\* unterminated last line is a header too.
RECURSIVE process_response_headers(_, _, _)
process_response_headers(c, data, complete) ==
    Let(take_till_lf(data), LAMBDA t :
       IF ~t.ok
       THEN (IF complete /\ data # <<>>
             THEN [c |-> AddResponseHeader(c, data), remaining |-> <<>>, eoh |-> FALSE]
             ELSE [c |-> c, remaining |-> data, eoh |-> FALSE])
       ELSE IF is_line_empty(t.line)
       THEN [c |-> c, remaining |-> t.remaining, eoh |-> TRUE]
       ELSE process_response_headers(AddResponseHeader(c, t.line), t.remaining,
                                     complete))

\* Variant of response_trailer_done that leaves the data receiver in place.
response_trailer_done_unfinalized(c) ==
    Then(RunHook(c, "response_trailer"), LAMBDA e :
         R([e EXCEPT !.response_state = "FINALIZE"], "OK"))

\* Finalize the raw trailer data, run the RESPONSE_TRAILER hooks and move on
\* to FINALIZE.
response_trailer_done(c) ==
    Then(response_receiver_finalize_clear(c), LAMBDA d :
    Then(RunHook(d, "response_trailer"), LAMBDA e :
         R([e EXCEPT !.response_state = "FINALIZE"], "OK")))

response_headers(c, data) ==
    IF c.response_status = "CLOSED"
    THEN response_trailer_done(
            [process_response_headers(c, c.response_header, TRUE).c
               EXCEPT !.response_header = <<>>])
    ELSE LET response_header == c.response_header \o data
         IN Let(process_response_headers(
               [c EXCEPT !.response_header = <<>>], response_header, FALSE), LAMBDA p :
         LET eol == Len(p.remaining) = Len(response_header)
                    /\ p.remaining \in {<<CR, LF>>, <<LF>>}
             c1 == IF eol THEN Seek(p.c, Len(data))
                   ELSE IF Len(p.remaining) <= Len(data)
                   THEN Seek(p.c, Len(data) - Len(p.remaining))
                   ELSE p.c
         IN
            IF p.eoh \/ eol
            THEN (IF response(c1).response_progress = "HEADERS"
                  THEN R([c1 EXCEPT !.response_state = "BODY_DETERMINE"], "OK")
                  ELSE response_trailer_done(c1))
            ELSE Then(check_response_buffer_limit(Seek(p.c, Len(data)),
                                                  Len(p.remaining)),
                      LAMBDA d : R([d EXCEPT !.response_header = p.remaining],
                                   "DATA_BUFFER")))

\* parse_response_line_generic: protocol, status and message tokens.
parse_response_line(c, line) ==
    LET np == PrefixLen(line, LAMBDA b : ~is_space(b))
        rest == Drop(line, np)
    IN Let(Drop(rest, PrefixLen(rest, is_space)), LAMBDA rest1 :
    LET ns == PrefixLen(rest1, LAMBDA b : ~is_space(b))
    IN
       [c EXCEPT !.txs[ResponseIndex(c) + 1] =
                   [@ EXCEPT !.response_protocol_number = parse_protocol(Take(line, np)),
                             !.response_status_number = parse_status(Take(rest1, ns))]])

\* Transaction::state_response_line: run the RESPONSE_LINE hooks.
state_response_line(c) == RunHook(c, "response_line")

response_line_complete(c, line) ==
    Then(check_response_buffer_limit(c, Len(line)), LAMBDA d :
      IF line = <<>> THEN R(d, "DATA")
      ELSE IF is_line_ignorable(line)
      THEN R(SetRes([d EXCEPT !.response_state =
                               IF d.response_status = "CLOSED" THEN "FINALIZE" ELSE @],
                    "response_ignored_lines", response(d).response_ignored_lines + 1),
             "OK")
      ELSE IF treat_response_line_as_body(chomp(line))
      THEN Then(response_process_body_data_ex(d, chomp(line)), LAMBDA e :
                IF response_curr_len(e) <= e.response_pos
                THEN R([SetRes(SetRes(e, "response_transfer_coding", "IDENTITY"),
                               "response_progress", "BODY") EXCEPT
                          !.response_body_data_left = -1,
                          !.response_state = "FINALIZE"], "OK")
                ELSE R(e, "OK"))
      ELSE Then(state_response_line(parse_response_line(d, chomp(line))), LAMBDA e :
                R(SetRes([e EXCEPT !.response_state = "HEADERS"],
                         "response_progress", "HEADERS"), "OK")))

\* take_till_eol: the line up to and including its line ending.
take_till_eol(data) == take_till_lf(data)

response_line(c, input) ==
    LET data == c.response_buf \o input
        data_len == Len(c.response_buf)
        c1 == [c EXCEPT !.response_buf = <<>>]
    IN Let(take_till_eol(data), LAMBDA t :
       IF t.ok
       THEN response_line_complete(Seek(c1, Len(t.line) - data_len), t.line)
       ELSE IF c1.response_status = "CLOSED"
       THEN response_line_complete(
               [c1 EXCEPT !.response_pos = response_curr_len(c1)], data)
       ELSE handle_response_absent_lf(c1, data))


\* Transaction::state_response_complete_ex: complete the response, yield to
\* the request side if it is waiting for this response, else detach the
\* transaction and go back to IDLE.
state_response_complete_ex(c) ==
    LET tx == response(c)
        done == IF tx.response_progress # "COMPLETE"
                THEN RunHook(SetRes(c, "response_progress", "COMPLETE"),
                             "response_complete")
                ELSE R(c, "OK")
    IN Then(done, LAMBDA d :
         IF d.request_status = "DATA_OTHER" /\ d.in_tx # None /\ d.in_tx = d.out_tx
         THEN R(d, "DATA_OTHER")
         ELSE IF d.response_data_other_at_tx_end
         THEN R([d EXCEPT !.response_data_other_at_tx_end = FALSE], "DATA_OTHER")
         ELSE R([d EXCEPT !.out_tx = None, !.response_state = "IDLE"], "OK"))

response_finalize(c, chunk) ==
    LET work0 == chunk.bytes
        at_end == c.response_pos >= response_curr_len(c)
        lf == ~at_end /\ c.response_curr_data[c.response_pos + 1] = LF
    IN Let(take_till_lf(work0), LAMBDA t :
    LET open_ == c.response_status # "CLOSED"
        work == IF open_ /\ ~lf THEN t.line ELSE work0
        c1 == IF open_
              THEN Seek(c, IF lf THEN Len(work0) ELSE Len(t.line))
              ELSE c
        lim == IF c1.response_buf # <<>>
               THEN check_response_buffer_limit(c1, Len(work)) ELSE R(c1, "OK")
    IN
       IF chunk.gap THEN state_response_complete_ex(c)
       ELSE IF open_ /\ at_end THEN state_response_complete_ex(c)
       ELSE IF open_ /\ ~lf /\ ~t.ok THEN handle_response_absent_lf(c, work0)
       ELSE Then(lim, LAMBDA d :
              LET data == d.response_buf \o work
                  buf_len == Len(d.response_buf)
                  d1 == [d EXCEPT !.response_buf = <<>>]
              IN IF data = <<>> THEN state_response_complete_ex(d1)
                 ELSE IF treat_response_line_as_body(data)
                 THEN response_process_body_data_ex(
                         Log(d1, "RESPONSE_BODY_UNEXPECTED"), data)
                 ELSE state_response_complete_ex(
                         [d1 EXCEPT
                            !.response_buf = Take(data, buf_len),
                            !.response_pos = IF @ < Len(data) THEN 0
                                             ELSE @ - Len(data)])))

\* Advance the request side past a transaction the response side had to
\* start on its own.
request_next(c) ==
    IF c.in_tx = ResponseIndex(c) THEN [c EXCEPT !.in_tx = None] ELSE c

RequestUriNotSeen ==
    <<"/","l","i","b","h","t","p",":",":","r","e","q","u","e","s","t","_",
      "u","r","i","_","n","o","t","_","s","e","e","n">>

\* Transaction::state_response_start: run the RESPONSE_START hooks and expect
\* the response line.
state_response_start(c) ==
    Then(RunHook(c, "response_start"), LAMBDA d :
         R(SetRes([d EXCEPT !.response_state = "LINE"],
                  "response_progress", "LINE"), "OK"))

\* The response that begins is attached to the next transaction in line,
\* which is created if the request side has not created it.
response_attach(c) ==
    [EnsureTx(c, c.out_next_tx_index) EXCEPT
       !.out_tx = c.out_next_tx_index,
       !.out_next_tx_index = @ + 1,
       !.res_begun = Append(@, c.out_next_tx_index)]

\* Variant of response_idle that attaches the response to the newest
\* transaction instead of the next in line.
response_idle_newest(c) ==
    IF c.response_pos >= response_curr_len(c) THEN R(c, "DATA")
    ELSE LET idx == IF c.txs = <<>> THEN 0 ELSE Len(c.txs) - 1
             c1 == [EnsureTx(c, idx) EXCEPT
                      !.out_tx = idx,
                      !.out_next_tx_index = @ + 1,
                      !.res_begun = Append(@, idx)]
             c2 == IF response(c1).request_progress = "NOT_STARTED"
                   THEN request_next(
                          SetRes(SetRes(Log(c1, "UNABLE_TO_MATCH_RESPONSE_TO_REQUEST"),
                                        "request_uri", RequestUriNotSeen),
                                 "request_progress", "COMPLETE"))
                   ELSE c1
         IN state_response_start(
              [c2 EXCEPT !.response_content_length = -1,
                         !.response_body_data_left = -1])

\* Variant of response_idle that begins the response without looking at the
\* request.
response_idle_unmatched(c) ==
    IF c.response_pos >= response_curr_len(c) THEN R(c, "DATA")
    ELSE state_response_start(
           [response_attach(c) EXCEPT !.response_content_length = -1,
                                      !.response_body_data_left = -1])

\* IDLE: with a byte at hand, begin the next response.
response_idle(c) ==
    IF c.response_pos >= response_curr_len(c) THEN R(c, "DATA")
    ELSE LET c1 == response_attach(c)
             c2 == IF response(c1).request_progress = "NOT_STARTED"
                   THEN request_next(
                          SetRes(SetRes(Log(c1, "UNABLE_TO_MATCH_RESPONSE_TO_REQUEST"),
                                        "request_uri", RequestUriNotSeen),
                                 "request_progress", "COMPLETE"))
                   ELSE c1
         IN state_response_start(
              [c2 EXCEPT !.response_content_length = -1,
                         !.response_body_data_left = -1])

\* Handle the current state to be processed.
handle_response_state(c, chunk) ==
    LET data == Drop(c.response_curr_data, c.response_pos)
        here == [gap |-> chunk.gap, len |-> IF chunk.gap THEN chunk.len ELSE Len(data),
                 bytes |-> IF chunk.gap THEN <<>> ELSE data]
        st == c.response_state
        c1 == Ev(c, <<"handler", "response", st>>)
    IN CASE st = "IDLE" -> response_idle(c1)
         [] st = "LINE" -> response_line(c1, data)
         [] st = "HEADERS" -> response_headers(c1, data)
         [] st = "BODY_DETERMINE" -> response_body_determine(c1)
         [] st = "BODY_CHUNKED_DATA" -> response_body_chunked_data(c1, data)
         [] st = "BODY_CHUNKED_LENGTH" -> response_body_chunked_length(c1, data)
         [] st = "BODY_CHUNKED_DATA_END" -> response_body_chunked_data_end(c1, data)
         [] st = "FINALIZE" -> response_finalize(c1, here)
         [] st = "BODY_IDENTITY_STREAM_CLOSE" ->
                response_body_identity_stream_close(c1, here)
         [] st = "BODY_IDENTITY_CL_KNOWN" -> response_body_identity_cl_known(c1, here)
         [] OTHER -> R(c1, "ERROR")

GapStates == {"BODY_IDENTITY_CL_KNOWN", "BODY_IDENTITY_STREAM_CLOSE", "FINALIZE"}

\* The processing loop of response_data: invoke state handlers until one of
\* them asks for data, stops or fails.  The result is the stream state
\* handed back to the caller.
RECURSIVE response_data_loop(_, _)
\* Variant of the loop that reports DATA_OTHER whenever a handler asks for
\* the other stream, whatever was consumed.
response_data_loop_unchecked(c, chunk) ==
    Let(handle_response_state(c, chunk), LAMBDA h :
    LET tunnel == h.rc = "OK" /\ h.c.response_status = "TUNNEL"
    IN Let(IF h.rc = "OK" THEN response_handle_state_change(h.c) ELSE h, LAMBDA r :
    LET d == Ev(r.c, <<"rc", r.rc>>)
    IN
       IF tunnel THEN R(h.c, "TUNNEL")
       ELSE CASE r.rc = "OK" -> response_data_loop(r.c, chunk)
              [] r.rc \in {"DATA", "DATA_BUFFER"} ->
                   R([response_receiver_send_data(d, FALSE).c
                        EXCEPT !.response_status = "DATA"], "DATA")
              [] r.rc = "STOP" -> R([d EXCEPT !.response_status = "STOP"], "STOP")
              [] r.rc = "DATA_OTHER" ->
                   R([d EXCEPT !.response_status = "DATA_OTHER"], "DATA_OTHER")
              [] OTHER -> R([d EXCEPT !.response_status = "ERROR"], "ERROR")))

response_data_loop(c, chunk) ==
    Let(handle_response_state(c, chunk), LAMBDA h :
    LET tunnel == h.rc = "OK" /\ h.c.response_status = "TUNNEL"
    IN Let(IF h.rc = "OK" THEN response_handle_state_change(h.c) ELSE h, LAMBDA r :
    LET d == Ev(r.c, <<"rc", r.rc>>)
    IN
       IF tunnel THEN R(h.c, "TUNNEL")
       ELSE CASE r.rc = "OK" -> response_data_loop(r.c, chunk)
              [] r.rc \in {"DATA", "DATA_BUFFER"} ->
                   R([response_receiver_send_data(d, FALSE).c
                        EXCEPT !.response_status = "DATA"], "DATA")
              [] r.rc = "STOP" -> R([d EXCEPT !.response_status = "STOP"], "STOP")
              [] r.rc = "DATA_OTHER" ->
                   IF d.response_pos >= response_curr_len(d)
                   THEN R([d EXCEPT !.response_status = "DATA"], "DATA")
                   ELSE R([d EXCEPT !.response_status = "DATA_OTHER"], "DATA_OTHER")
              [] OTHER -> R([d EXCEPT !.response_status = "ERROR"], "ERROR")))

\* Variant of response_data that parses on in tunnel mode.
response_data_untunnelled(c, chunk) ==
    IF c.response_status = "STOP"
    THEN R(Log(c, "PARSER_STATE_ERROR"), "STOP")
    ELSE IF c.response_status = "ERROR"
    THEN R(Log(c, "PARSER_STATE_ERROR"), "ERROR")
    ELSE IF chunk.len = 0 /\ c.response_status # "CLOSED"
    THEN R(Log(c, "ZERO_LENGTH_DATA_CHUNKS"), "CLOSED")
    ELSE Let([c EXCEPT !.response_curr_data = chunk.bytes,
                       !.response_pos = 0,
                       !.response_current_receiver_offset = 0,
                       !.conn.out_data_counter = @ + chunk.len], LAMBDA c2 :
            IF chunk.gap /\ c2.response_state \notin GapStates
            THEN R(Log(c2, "INVALID_GAP"), "CLOSED")
            ELSE response_data_loop(c2, chunk))

\* Process a chunk of outbound (server or response) data.
response_data(c, chunk) ==
    IF c.response_status = "STOP"
    THEN R(Log(c, "PARSER_STATE_ERROR"), "STOP")
    ELSE IF c.response_status = "ERROR"
    THEN R(Log(c, "PARSER_STATE_ERROR"), "ERROR")
    ELSE IF chunk.len = 0 /\ c.response_status # "CLOSED"
    THEN R(Log(c, "ZERO_LENGTH_DATA_CHUNKS"), "CLOSED")
    ELSE LET g == EnsureTx(c, ResponseIndex(c))
             c1 == IF chunk.gap
                   THEN [g EXCEPT !.txs[ResponseIndex(g) + 1] =
                           [@ EXCEPT !.flags = @ \cup {"RESPONSE_MISSING_BYTES"},
                                     !.response_progress =
                                         IF @ = "NOT_STARTED" THEN "GAP" ELSE @]]
                   ELSE c
         IN Let([c1 EXCEPT !.response_curr_data = chunk.bytes,
                        !.response_pos = 0,
                        !.response_current_receiver_offset = 0,
                        !.conn.out_data_counter = @ + chunk.len], LAMBDA c2 :
            IF c2.response_status = "TUNNEL" THEN R(c2, "TUNNEL")
            ELSE IF chunk.gap /\ c2.response_state \notin GapStates
            THEN R(Log(c2, "INVALID_GAP"), "CLOSED")
            ELSE response_data_loop(c2, chunk))


(***************************************************************************)
(* Request side: the inbound state machine and its driver.                 *)
(***************************************************************************)
SeekReq(c, n) == [c EXCEPT !.request_pos = @ + n]

Methods == <<<<"G","E","T">>, <<"P","O","S","T">>, <<"H","E","A","D">>,
             <<"C","O","N","N","E","C","T">>>>
MethodNames == <<"GET", "POST", "HEAD", "CONNECT">>

\* util.rs convert_to_method, for the methods the model feeds.
convert_to_method(method) ==
    IF \E i \in 1..Len(Methods) : Methods[i] = method
    THEN MethodNames[CHOOSE i \in 1..Len(Methods) : Methods[i] = method]
    ELSE "UNKNOWN"

\* parse_request_line_generic_ex: method, URI and protocol of a request line.
parse_request_line(c, line) ==
    LET a == Drop(line, PrefixLen(line, is_space))
    IN Let(PrefixLen(a, LAMBDA b : ~is_space(b)), LAMBDA nm :
    Let(Drop(a, nm), LAMBDA b0 :
    LET remaining == Drop(b0, PrefixLen(b0, is_space))
    IN Let(PrefixLen(remaining, LAMBDA b : b # SP), LAMBDA nu :
    Let(Drop(remaining, nu), LAMBDA u0 :
    LET protocol == Drop(u0, PrefixLen(u0, is_space))
    IN
       [c EXCEPT !.txs[RequestIndex(c) + 1] =
          [@ EXCEPT !.request_method_number = convert_to_method(Take(a, nm)),
                    !.request_uri = Take(remaining, nu),
                    !.request_protocol_number =
                        IF remaining = <<>> \/ protocol = <<>> THEN "V0_9"
                        ELSE parse_protocol(protocol)]]))))

check_request_buffer_limit(c, len) ==
    IF request_curr_len(c) = 0 \/ len = 0 THEN R(c, "OK")
    ELSE IF Len(c.request_buf) + len + Len(c.request_header) > FieldLimit
    THEN R(Log(c, "REQUEST_FIELD_TOO_LONG"), "ERROR")
    ELSE R(c, "OK")

handle_request_absent_lf(c, data) ==
    Then(check_request_buffer_limit(
            [c EXCEPT !.request_pos = request_curr_len(c)], Len(data)),
         LAMBDA d : R([d EXCEPT !.request_buf = @ \o data], "DATA_BUFFER"))

\* IDLE: on the first byte allocate a transaction and expect the line.
request_idle(c) ==
    IF c.request_pos >= request_curr_len(c) THEN R(c, "DATA")
    ELSE Then(RunHook(create_tx(c), "request_start"), LAMBDA d :
              R(SetReq([d EXCEPT !.request_state = "LINE"],
                       "request_progress", "LINE"), "OK"))

request_line_complete(c, line) ==
    Then(check_request_buffer_limit(c, Len(line)), LAMBDA d :
      IF line = <<>> THEN R(d, "DATA")
      ELSE IF is_line_ignorable(line) THEN R(d, "OK")
      ELSE Then(RunHook(parse_request_line(d, chomp(line)), "request_line"),
                LAMBDA e :
                  IF request(e).request_protocol_number = "V0_9"
                  THEN R([e EXCEPT !.request_state = "FINALIZE"], "OK")
                  ELSE R(SetReq([e EXCEPT !.request_state = "HEADERS"],
                                "request_progress", "HEADERS"), "OK")))

request_line(c, input) ==
    LET data == c.request_buf \o input
        data_len == Len(c.request_buf)
        c1 == [c EXCEPT !.request_buf = <<>>]
    IN Let(take_till_lf(data), LAMBDA t :
       IF t.ok
       THEN request_line_complete(SeekReq(c1, Len(t.line) - data_len), t.line)
       ELSE IF c1.request_status = "CLOSED"
       THEN request_line_complete(
               [c1 EXCEPT !.request_pos = request_curr_len(c1)], data)
       ELSE handle_request_absent_lf(c1, data))

AddRequestHeader(c, line) ==
    LET tx == request(c)
    IN Let(parse_header_generic(tx.flags, line), LAMBDA h :
    Let(process_header_generic(tx.request_headers,
                               tx.req_header_repetitions, h), LAMBDA p :
       [c EXCEPT !.txs[RequestIndex(c) + 1] =
                    [tx EXCEPT !.flags = h.txflags,
                               !.request_headers = p.headers,
                               !.req_header_repetitions = p.reps],
                 !.logs = @ \cup h.logs \cup p.logs]))

RECURSIVE process_request_headers(_, _, _)
process_request_headers(c, data, complete) ==
    Let(take_till_lf(data), LAMBDA t :
       IF ~t.ok
       THEN (IF complete /\ data # <<>>
             THEN [c |-> AddRequestHeader(c, data), remaining |-> <<>>, eoh |-> FALSE]
             ELSE [c |-> c, remaining |-> data, eoh |-> FALSE])
       ELSE IF is_line_empty(t.line)
       THEN [c |-> c, remaining |-> t.remaining, eoh |-> TRUE]
       ELSE process_request_headers(AddRequestHeader(c, t.line), t.remaining,
                                    complete))

\* HEADERS: take lines until the empty line, then run the REQUEST_HEADERS
\* hooks and go on to the CONNECT check.
request_headers(c, data) ==
    IF c.request_status = "CLOSED"
    THEN Then(RunHook([process_request_headers(c, c.request_header, TRUE).c
                         EXCEPT !.request_header = <<>>], "request_headers"),
              LAMBDA d : R([d EXCEPT !.request_state = "FINALIZE"], "OK"))
    ELSE LET request_header == c.request_header \o data
         IN Let(process_request_headers(
               [c EXCEPT !.request_header = <<>>], request_header, FALSE), LAMBDA p :
            IF p.eoh
            THEN Then(RunHook(SeekReq(p.c, Len(data) - Len(p.remaining)),
                              "request_headers"),
                      LAMBDA d : R([d EXCEPT !.request_state = "CONNECT_CHECK"], "OK"))
            ELSE Then(check_request_buffer_limit(SeekReq(p.c, Len(data)),
                                                 Len(p.remaining)),
                      LAMBDA d : R([d EXCEPT !.request_header = p.remaining],
                                   "DATA_BUFFER")))

\* CONNECT_CHECK: a CONNECT request is complete and waits for its response.
request_connect_check(c) ==
    IF request(c).request_method_number = "CONNECT"
    THEN Then(RunHook(SetReq(c, "request_progress", "COMPLETE"), "request_complete"),
              LAMBDA d : R([d EXCEPT !.request_state = "CONNECT_WAIT_RESPONSE"],
                           "DATA_OTHER"))
    ELSE R([c EXCEPT !.request_state = "BODY_DETERMINE"], "OK")

\* CONNECT_WAIT_RESPONSE: wait for the response status; 2xx turns both
\* streams into tunnels, anything else resumes request parsing.
request_connect_wait_response(c) ==
    IF ProgressRank(request(c).response_progress) <= ProgressRank("LINE")
    THEN R(c, "DATA_OTHER")
    ELSE IF in_range(request(c).response_status_number, 200, 299)
    THEN R([c EXCEPT !.request_status = "TUNNEL",
                     !.response_status = IF @ # "ERROR" THEN "TUNNEL" ELSE @], "OK")
    ELSE R([c EXCEPT !.request_state = "FINALIZE"], "OK")

\* BODY_DETERMINE: Content-Length selects an identity body, else no body.
request_body_determine(c) ==
    LET hs == request(c).request_headers
    IN Let(parse_content_length(GetHeader(hs, ContentLengthName).value), LAMBDA len :
       IF ~HasHeader(hs, ContentLengthName)
       THEN R([c EXCEPT !.request_state = "FINALIZE"], "OK")
       ELSE IF len = None
       THEN R(SetReq(c, "flags", request(c).flags \cup {"REQUEST_INVALID_C_L"}),
              "ERROR")
       ELSE IF len = 0
       THEN R([c EXCEPT !.request_content_length = 0,
                        !.request_body_data_left = 0,
                        !.request_state = "FINALIZE"], "OK")
       ELSE R(SetReq([c EXCEPT !.request_content_length = len,
                               !.request_body_data_left = len,
                               !.request_state = "BODY_IDENTITY"],
                     "request_progress", "BODY"), "OK"))

\* Transaction::req_process_body_data: count the bytes and run the
\* REQUEST_BODY_DATA hooks.
request_process_body_data_ex(c, data) ==
    LET tx == request(c)
        c1 == [c EXCEPT !.txs[RequestIndex(c) + 1] =
                 [tx EXCEPT !.request_message_len = @ + Len(data),
                            !.request_entity_len = @ + Len(data),
                            !.request_body = @ \o data]]
    IN IF data = <<>> THEN R(c1, "OK") ELSE RunHook(c1, "request_body_data")

\* BODY_IDENTITY: count down a body of known length.
request_body_identity(c, chunk) ==
    LET n == Min(chunk.len, c.request_body_data_left)
        fed == IF chunk.gap
               THEN RunHook(SetReq(c, "request_message_len",
                                   request(c).request_message_len + chunk.len),
                            "request_body_data")
               ELSE Then(request_process_body_data_ex(c, Take(chunk.bytes, n)),
                         LAMBDA d : R(SeekReq(d, n), "OK"))
    IN IF c.request_status = "CLOSED"
       THEN R([c EXCEPT !.request_state = "FINALIZE"], "OK")
       ELSE IF n = 0 THEN R(c, "DATA")
       ELSE Then(fed, LAMBDA d :
              LET d1 == [d EXCEPT !.request_body_data_left = @ - n]
              IN IF d1.request_body_data_left = 0
                 THEN R([d1 EXCEPT !.request_state = "FINALIZE"], "OK")
                 ELSE R(d1, "DATA"))

\* FINALIZE: run the REQUEST_COMPLETE hooks and return to IDLE.
request_finalize(c) ==
    LET tx == request(c)
        done == IF tx.request_progress # "COMPLETE"
                THEN RunHook(SetReq(c, "request_progress", "COMPLETE"),
                             "request_complete")
                ELSE R(c, "OK")
    IN Then(done, LAMBDA d :
            R([d EXCEPT !.in_tx = None,
                        !.request_state =
                            IF tx.request_protocol_number = "V0_9"
                            THEN "IGNORE_DATA_AFTER_HTTP_0_9" ELSE "IDLE"], "OK"))

\* Anything after an HTTP/0.9 request is swallowed and flagged.
request_ignore_data_after_http_0_9(c) ==
    LET extra == request_curr_len(c) - c.request_pos
    IN R([c EXCEPT !.conn.flags = IF extra > 0 THEN @ \cup {"HTTP_0_9_EXTRA"} ELSE @,
                   !.request_pos = request_curr_len(c)], "DATA")


handle_request_state(c, chunk) ==
    LET data == Drop(c.request_curr_data, c.request_pos)
        here == [gap |-> chunk.gap, len |-> IF chunk.gap THEN chunk.len ELSE Len(data),
                 bytes |-> IF chunk.gap THEN <<>> ELSE data]
        st == c.request_state
        c1 == Ev(c, <<"handler", "request", st>>)
    IN CASE st = "IDLE" -> request_idle(c1)
         [] st = "IGNORE_DATA_AFTER_HTTP_0_9" -> request_ignore_data_after_http_0_9(c1)
         [] st = "LINE" -> request_line(c1, data)
         [] st = "HEADERS" -> request_headers(c1, data)
         [] st = "CONNECT_WAIT_RESPONSE" -> request_connect_wait_response(c1)
         [] st = "CONNECT_CHECK" -> request_connect_check(c1)
         [] st = "BODY_DETERMINE" -> request_body_determine(c1)
         [] st = "BODY_IDENTITY" -> request_body_identity(c1, here)
         [] st = "FINALIZE" -> request_finalize(c1)
         [] OTHER -> R(c1, "ERROR")

RequestGapStates == {"BODY_IDENTITY", "FINALIZE"}

RECURSIVE request_data_loop(_, _)
request_data_loop(c, chunk) ==
    Let(handle_request_state(c, chunk), LAMBDA h :
    LET d == Ev(h.c, <<"rc", h.rc>>)
    IN
       IF h.rc = "OK" /\ h.c.request_status = "TUNNEL" THEN R(h.c, "TUNNEL")
       ELSE CASE h.rc = "OK" -> request_data_loop(h.c, chunk)
              [] h.rc \in {"DATA", "DATA_BUFFER"} ->
                   R([d EXCEPT !.request_status = "DATA"], "DATA")
              [] h.rc = "STOP" -> R([d EXCEPT !.request_status = "STOP"], "STOP")
              [] h.rc = "DATA_OTHER" ->
                   IF d.request_pos >= request_curr_len(d)
                   THEN R([d EXCEPT !.request_status = "DATA"], "DATA")
                   ELSE R([d EXCEPT !.request_status = "DATA_OTHER"], "DATA_OTHER")
              [] OTHER -> R([d EXCEPT !.request_status = "ERROR"], "ERROR"))

\* Process a chunk of inbound (client or request) data.
request_data(c, chunk) ==
    IF c.request_status = "STOP"
    THEN R(Log(c, "PARSER_STATE_ERROR"), "STOP")
    ELSE IF c.request_status = "ERROR"
    THEN R(Log(c, "PARSER_STATE_ERROR"), "ERROR")
    ELSE IF chunk.len = 0 /\ c.request_status # "CLOSED"
    THEN R(Log(c, "ZERO_LENGTH_DATA_CHUNKS"), "CLOSED")
    ELSE LET c1 == IF chunk.gap /\ c.in_tx # None
                   THEN SetReq(c, "flags",
                               request(c).flags \cup {"REQUEST_MISSING_BYTES"})
                   ELSE c
             c2 == [c1 EXCEPT !.request_curr_data = chunk.bytes,
                              !.request_pos = 0,
                              !.conn.in_data_counter = @ + chunk.len]
         IN IF c2.request_status = "TUNNEL" THEN R(c2, "TUNNEL")
            ELSE IF chunk.gap /\ c2.request_state \notin RequestGapStates
            THEN R(Log(c2, "INVALID_GAP"), "CLOSED")
            ELSE request_data_loop(c2, chunk)

(***************************************************************************)
(* open and close (connection_parser.rs, connection.rs).                   *)
(***************************************************************************)
\* Connection::open stores the endpoints.
conn_open(conn, client, server) ==
    [conn EXCEPT !.client = client, !.server = server]

\* Variant of open that does not look at the stream states.
open_unguarded(c, client, server) ==
    [c EXCEPT !.conn = conn_open(@, client, server),
              !.request_status = "OPEN",
              !.response_status = "OPEN"]

open(c, client, server) ==
    IF c.request_status # "NEW" \/ c.response_status # "NEW"
    THEN Log(c, "CONNECTION_ALREADY_OPEN")
    ELSE [c EXCEPT !.conn = conn_open(@, client, server),
                   !.request_status = "OPEN",
                   !.response_status = "OPEN"]

\* Variant of close_status that spares no stream state.
close_status_any(status) == "CLOSED"

\* The stream state close() stores for a direction.
close_status(status) == IF status # "ERROR" THEN "CLOSED" ELSE status

EmptyChunk == [gap |-> FALSE, len |-> 0, bytes |-> <<>>]

\* Variant of close that calls the parsers before it marks the streams.
close_flush_first(c) ==
    LET entry(d, parser) == <<"call", parser, d.request_status, d.response_status>>
    IN Let(request_data(Ev(c, entry(c, "request_data")), EmptyChunk), LAMBDA rq :
    Let(response_data(Ev(rq.c, entry(rq.c, "response_data")), EmptyChunk), LAMBDA rs :
       [c |-> [rs.c EXCEPT !.request_status = close_status(@),
                           !.response_status = close_status(@)],
        req_rc |-> rq.rc, res_rc |-> rs.rc]))

\* close: mark both streams, then call each parser one last time with an
\* empty chunk.  The result carries what the two calls returned.
close(c) ==
    LET c1 == [c EXCEPT !.request_status = close_status(@),
                        !.response_status = close_status(@)]
        entry(d, parser) == <<"call", parser, d.request_status, d.response_status>>
    IN Let(request_data(Ev(c1, entry(c1, "request_data")), EmptyChunk), LAMBDA rq :
    Let(response_data(Ev(rq.c, entry(rq.c, "response_data")), EmptyChunk), LAMBDA rs :
       [c |-> rs.c, req_rc |-> rq.rc, res_rc |-> rs.rc]))


(***************************************************************************)
(* The connection as a state machine.  The environment opens the           *)
(* connection, feeds the two byte streams of one of the traffic samples    *)
(* in chunks of its choosing, reports gaps, and closes; on any data call   *)
(* it may make one hook answer STOP or ERROR.                              *)
(***************************************************************************)
TwoRequests ==
    <<"G","E","T",SP,"/",SP,"H",LF,LF,"G","E","T",SP,"/",SP,"H",LF,LF>>

ConnectRequest ==
    <<"C","O","N","N","E","C","T",SP,"a",SP,"H",LF,LF,"x","y">>

LengthResponse ==
    <<"H","T","T","P","/","1",".","0",SP,"2","0","0",SP,"O","K",LF,"C","o",
      "n","t","e","n","t","-","L","e","n","g","t","h",":",SP,"2",LF,LF,"a",
      "b">>

ChunkedResponse ==
    <<"H","T","T","P","/","1",".","1",SP,"2","0","0",LF,"T","r","a","n","s",
      "f","e","r","-","E","n","c","o","d","i","n","g",":",SP,"c","h","u",
      "n","k","e","d",LF,LF,"1",CR,LF,"a",CR,LF,"0",CR,LF,CR,LF>>

TwoResponses ==
    <<"H","T","T","P",SP,"2","0","4",LF,LF,"H","T","T","P",SP,"2","0","4",
      LF,LF>>

ConnectResponse ==
    <<"H","T","T","P",SP,"2","0","0",LF,LF,"z","z">>

\* The server refuses the CONNECT.
RefusedConnectResponse ==
    <<"H","T","T","P",SP,"4","0","4",LF,LF>>

\* A request that waits for its headers to be validated, and the request
\* the client sends instead of the body once it is refused.
ExpectRequest ==
    <<"P","U","T",SP,"/",SP,"H",LF,"C","o","n","t","e","n","t","-","L","e",
      "n","g","t","h",":",SP,"1",LF,"E","x","p","e","c","t",":",SP,"1","0",
      "0","-","c","o","n","t","i","n","u","e",LF,LF,"G","E","T",SP,"/",SP,
      "H",LF,LF>>

UnauthorizedResponse ==
    <<"H","T","T","P",SP,"4","0","1",LF,LF>>

\* Two interim responses in a row.
TwoContinueResponse ==
    <<"H","T","T","P",SP,"1","0","0",LF,LF,"H","T","T","P",SP,"1","0","0",LF,LF>>

\* The server switches to HTTP/2; what follows is not HTTP/1.
UpgradeResponse ==
    <<"H","T","T","P",SP,"1","0","1",LF,"U","p","g","r","a","d","e",":",SP,
      "h","2","c",LF,LF,"z","z">>

\* A response whose Content-Length is no number.
BadLengthResponse ==
    <<"H","T","T","P",SP,"2","0","0",LF,"C","o","n","t","e","n","t","-","L",
      "e","n","g","t","h",":",SP,"x",LF,LF,"a">>

\* A body of known length with the next response right behind it.
LengthThenResponse ==
    <<"H","T","T","P",SP,"2","0","0",LF,"C","o","n","t","e","n","t","-","L",
      "e","n","g","t","h",":",SP,"1",LF,LF,"a","H","T","T","P",SP,"2","0",
      "4",LF,LF>>

\* A chunked body whose first length line is no number, and one whose
\* second is none.
InvalidChunkResponse ==
    <<"H","T","T","P",SP,"2","0","0",LF,"T","r","a","n","s","f","e","r","-",
      "E","n","c","o","d","i","n","g",":",SP,"c","h","u","n","k","e","d",LF,
      LF,"g",LF,"b">>
LateInvalidChunkResponse ==
    <<"H","T","T","P",SP,"2","0","0",LF,"T","r","a","n","s","f","e","r","-",
      "E","n","c","o","d","i","n","g",":",SP,"c","h","u","n","k","e","d",LF,
      LF,"1",CR,LF,"a",CR,LF,"g",LF,"b">>

\* A reply without a status line, and a status line as loose as browsers
\* accept it.
PlainResponse ==
    <<"o","k",LF,"b">>
LaxResponse ==
    <<SP,"h","t","t","p",SP,"2","0","0",LF,LF>>

\* The proxy asks for authentication.
ProxyAuthResponse ==
    <<"H","T","T","P",SP,"4","0","7",LF,LF>>

StreamCloseResponse ==
    <<"H","T","T","P","/","1",".","0",SP,"2","0","0",LF,LF,"a","b">>


PostRequest ==
    <<"P","O","S","T",SP,"/",SP,"H","T","T","P","/","1",".","0",LF,"C","o",
      "n","t","e","n","t","-","L","e","n","g","t","h",":",SP,"2",LF,LF,"a",
      "b">>

\* A header line longer than the field limit.
LongHeaderResponse ==
    <<"H","T","T","P",SP,"2","0","0",LF,"X",":",SP,"a","a","a","a","a","a",
      "a","a","a","a","a","a","a","a","a","a","a","a","a","a","a","a","a",
      "a","a","a","a","a","a","a","a","a",LF,LF>>

\* An interim 100 response, then the final one.
ContinueResponse ==
    <<"H","T","T","P",SP,"1","0","0",LF,"I",":",SP,"1",LF,LF,"H","T","T",
      "P",SP,"2","0","0",LF,"F",":",SP,"1",LF,LF>>

\* Chunked transfer coding together with a Content-Length.
TeClResponse ==
    <<"H","T","T","P","/","1",".","1",SP,"2","0","0",LF,"T","r","a","n","s",
      "f","e","r","-","E","n","c","o","d","i","n","g",":",SP,"c","h","u",
      "n","k","e","d",LF,"C","o","n","t","e","n","t","-","L","e","n","g",
      "t","h",":",SP,"2",LF,LF,"0",LF,LF>>

HeadRequest ==
    <<"H","E","A","D",SP,"/",SP,"H",LF,LF>>

\* multipart/byteranges, self-delimiting and with a Content-Length.
MultipartResponse ==
    <<"H","T","T","P",SP,"2","0","0",LF,"C","o","n","t","e","n","t","-","T",
      "y","p","e",":",SP,"m","u","l","t","i","p","a","r","t","/","b","y",
      "t","e","r","a","n","g","e","s",LF,LF>>

MultipartLengthResponse ==
    <<"H","T","T","P",SP,"2","0","0",LF,"C","o","n","t","e","n","t","-","T",
      "y","p","e",":",SP,"m","u","l","t","i","p","a","r","t","/","b","y",
      "t","e","r","a","n","g","e","s",LF,"C","o","n","t","e","n","t","-",
      "L","e","n","g","t","h",":",SP,"1",LF,LF,"a">>

\* The traffic samples: the inbound stream, the outbound stream, and whether
\* the environment disturbs the exchange (gaps, misbehaving hooks, empty
\* chunks, calls before or without open()).
Sample(req, res, rough, coarse) ==
    [req |-> req, res |-> res, rough |-> rough, coarse |-> coarse]
Scenarios ==
    { Sample(<<>>, ChunkedResponse, FALSE, FALSE),
      Sample(TwoRequests, TwoResponses, FALSE, FALSE),
      Sample(ConnectRequest, ConnectResponse, FALSE, FALSE),
      Sample(ConnectRequest, RefusedConnectResponse, TRUE, TRUE),
      Sample(ConnectRequest, ProxyAuthResponse, FALSE, FALSE),
      Sample(ExpectRequest, UnauthorizedResponse, FALSE, FALSE),
      Sample(<<>>, TwoContinueResponse, FALSE, FALSE),
      Sample(<<>>, UpgradeResponse, FALSE, FALSE),
      Sample(HeadRequest, UpgradeResponse, TRUE, TRUE),
      Sample(<<>>, BadLengthResponse, FALSE, TRUE),
      Sample(<<>>, LengthThenResponse, FALSE, FALSE),
      Sample(<<>>, PlainResponse, FALSE, FALSE),
      Sample(<<>>, LaxResponse, FALSE, FALSE),
      Sample(<<>>, InvalidChunkResponse, FALSE, FALSE),
      Sample(<<>>, LateInvalidChunkResponse, FALSE, FALSE),
      Sample(<<>>, StreamCloseResponse, TRUE, FALSE),
      Sample(<<>>, LengthResponse, TRUE, FALSE),
      Sample(PostRequest, <<>>, TRUE, FALSE),
      Sample(<<>>, LongHeaderResponse, FALSE, FALSE),
      Sample(<<>>, ContinueResponse, FALSE, FALSE),
      Sample(<<>>, TeClResponse, FALSE, TRUE),
      Sample(HeadRequest, TeClResponse, FALSE, TRUE),
      Sample(<<>>, MultipartResponse, FALSE, TRUE),
      Sample(<<>>, MultipartLengthResponse, FALSE, TRUE) }

Endpoints == {1, 2}

NoFault == [point |-> "none", rc |-> "OK"]
RequestHookPoints ==
    {"request_start", "request_line", "request_headers", "request_body_data",
     "request_complete"}
ResponseHookPoints ==
    {"response_start", "response_line", "response_headers",
     "response_header_data", "response_body_data", "response_complete"}
Faults(points) ==
    {NoFault} \cup [point : points, rc : {"STOP", "ERROR"}]

\* The chunk lengths the environment may cut from a stream: up to MaxChunk
\* bytes, or the whole stream in a single call.  A coarse environment
\* always hands over all it has of a stream.
ChunkLens(rest, fed, whole) ==
    {n \in 1..Len(rest) :
        IF whole THEN n = Len(rest)
        ELSE n <= MaxChunk \/ (n = Len(rest) /\ fed = 0)}

DataChunk(bytes) == [gap |-> FALSE, len |-> Len(bytes), bytes |-> bytes]
GapChunk(n) == [gap |-> TRUE, len |-> n, bytes |-> <<>>]

\* A parser at the start of a call: no hook misbehaves, no events yet.
Fresh(c) == [c EXCEPT !.hk = NoFault, !.ev = <<>>]
HookFired(c, fault) ==
    \E i \in 1..Len(c.ev) : c.ev[i] = <<"hook", fault.point>>

\* What can be observed of the transactions and the connection.
Observable(c) == [txs |-> c.txs, flags |-> c.conn.flags]

VARIABLES
    connp,      \* the connection parser
    req_rest,   \* inbound bytes not fed yet
    res_rest,   \* outbound bytes not fed yet
    rough,      \* the environment disturbs this exchange
    coarse,     \* the environment hands over each stream in one piece
    last,       \* the last API call and what it returned
    ndist,      \* disturbances so far
    nclose,     \* close() calls so far
    res_base,   \* the parser as open() left it
    res_fed,    \* the outbound bytes fed since, while nothing else happened
    clean,      \* only plain outbound chunks were fed since res_base
    pipelining, \* a request began while an earlier one had no response yet
    probe       \* a parsing function, its input and its result

vars == <<connp, req_rest, res_rest, rough, coarse, last, ndist, nclose,
          res_base, res_fed, clean, pipelining, probe>>

\* No parsing function is under study while a connection is driven.
NoProbe == [fn |-> "none"]

NoCall ==
    [op |-> "none", rc |-> "OK", rc2 |-> "OK", len |-> 0, gap |-> FALSE,
     consumed |-> 0, pre_request_status |-> "NEW",
     pre_response_status |-> "NEW", pre_state |-> "IDLE",
     pre_conn |-> NewConnp.conn, fault |-> NoFault]

Call(op, c, r, chunk, fault, state) ==
    [op |-> op, rc |-> r.rc, rc2 |-> "OK", len |-> chunk.len, gap |-> chunk.gap,
     consumed |-> IF op = "request_data" THEN r.c.request_pos
                  ELSE r.c.response_pos,
     pre_request_status |-> c.request_status,
     pre_response_status |-> c.response_status,
     pre_state |-> state, pre_conn |-> c.conn, fault |-> fault]

Init ==
    /\ connp = NewConnp
    /\ \E s \in Scenarios :
          /\ req_rest = s.req /\ res_rest = s.res
          /\ rough = s.rough /\ coarse = s.coarse
    /\ last = NoCall
    /\ ndist = 0 /\ nclose = 0
    /\ res_base = NewConnp /\ res_fed = <<>> /\ clean = TRUE
    /\ pipelining = FALSE
    /\ probe = NoProbe

\* Anything but a plain outbound chunk ends the comparison with the single
\* call, unless no outbound chunk was fed yet.
Rebase(c) ==
    IF clean /\ res_fed = <<>>
    THEN /\ res_base' = Fresh(c) /\ res_fed' = <<>> /\ clean' = TRUE
    ELSE /\ res_base' = NewConnp /\ res_fed' = <<>> /\ clean' = FALSE

Dirty == res_base' = NewConnp /\ res_fed' = <<>> /\ clean' = FALSE

\* A request began while fewer responses had begun than transactions existed.
Pipelines(c, d) ==
    /\ Len(d.txs) > Len(c.txs)
    /\ Len(d.txs) - 1 > Len(c.res_begun)

Opened == connp.request_status # "NEW" \/ connp.response_status # "NEW"
MayDisturb == rough /\ ndist < MaxDisturbances
\* Data is fed to an opened connection that was not closed; only a rough
\* environment feeds a parser it never opened.
MayFeed == nclose = 0 /\ (Opened \/ rough)
\* After DATA_OTHER the caller turns to the other stream before it comes
\* back with the rest of the chunk.
Yielded(op) == last.op = op /\ last.rc = "DATA_OTHER"

\* open() from a new pair of endpoints; a second open() is a disturbance.
Open ==
    \E a \in Endpoints :
        /\ a # connp.conn.client
        /\ connp.conn.client = None => a = 1
        /\ Opened => MayDisturb
        /\ connp' = open(Fresh(connp), a, a + 2)
        /\ last' = [NoCall EXCEPT !.op = "open",
                                  !.pre_request_status = connp.request_status,
                                  !.pre_response_status = connp.response_status,
                                  !.pre_conn = connp.conn]
        /\ ndist' = IF Opened THEN ndist + 1 ELSE ndist
        /\ Rebase(connp')
        /\ UNCHANGED <<req_rest, res_rest, rough, coarse, probe, nclose, pipelining>>

RequestData ==
    \E n \in ChunkLens(req_rest, connp.conn.in_data_counter, coarse),
       fault \in Faults(RequestHookPoints) :
        LET chunk == DataChunk(Take(req_rest, n))
            fired == fault # NoFault
        IN /\ MayFeed /\ ~Yielded("request_data")
           /\ fired => MayDisturb
           /\ \E r \in {request_data([Fresh(connp) EXCEPT !.hk = fault], chunk)} :
              /\ fired => HookFired(r.c, fault)
              /\ connp' = [r.c EXCEPT !.hk = NoFault]
              /\ req_rest' = Drop(req_rest, IF r.rc = "DATA_OTHER"
                                            THEN r.c.request_pos ELSE n)
              /\ last' = Call("request_data", connp, r, chunk, fault,
                              connp.request_state)
              /\ ndist' = IF fired THEN ndist + 1 ELSE ndist
              /\ pipelining' = (pipelining \/ Pipelines(connp, r.c))
              /\ Dirty
              /\ UNCHANGED <<res_rest, rough, coarse, probe, nclose>>

ResponseData ==
    \E n \in ChunkLens(res_rest, connp.conn.out_data_counter, coarse),
       fault \in Faults(ResponseHookPoints) :
        LET chunk == DataChunk(Take(res_rest, n))
            fired == fault # NoFault
        IN /\ MayFeed /\ ~Yielded("response_data")
           /\ fired => MayDisturb
           /\ \E r \in {response_data([Fresh(connp) EXCEPT !.hk = fault], chunk)} :
              /\ fired => HookFired(r.c, fault)
              /\ connp' = [r.c EXCEPT !.hk = NoFault]
              /\ res_rest' = Drop(res_rest, IF r.rc = "DATA_OTHER"
                                            THEN r.c.response_pos ELSE n)
              /\ last' = Call("response_data", connp, r, chunk, fault,
                              connp.response_state)
              /\ ndist' = IF fired THEN ndist + 1 ELSE ndist
              /\ IF clean /\ ~fired /\ r.rc # "DATA_OTHER"
                 THEN /\ res_fed' = res_fed \o chunk.bytes
                      /\ UNCHANGED <<res_base, clean>>
                 ELSE Dirty
              /\ UNCHANGED <<req_rest, rough, coarse, probe, nclose, pipelining>>

\* A gap stands for bytes of the stream that were lost.
RequestGap ==
    \E n \in 1..MaxGapLen :
        LET chunk == GapChunk(n)
        IN /\ MayFeed /\ MayDisturb
           /\ \E r \in {request_data(Fresh(connp), chunk)} :
              /\ connp' = r.c
              /\ req_rest' = Drop(req_rest, n)
              /\ last' = Call("request_data", connp, r, chunk, NoFault,
                              connp.request_state)
              /\ ndist' = ndist + 1
              /\ pipelining' = (pipelining \/ Pipelines(connp, r.c))
              /\ Dirty
              /\ UNCHANGED <<res_rest, rough, coarse, probe, nclose>>

ResponseGap ==
    \E n \in 1..MaxGapLen :
        LET chunk == GapChunk(n)
        IN /\ MayFeed /\ MayDisturb
           /\ \E r \in {response_data(Fresh(connp), chunk)} :
              /\ connp' = r.c
              /\ res_rest' = Drop(res_rest, n)
              /\ last' = Call("response_data", connp, r, chunk, NoFault,
                              connp.response_state)
              /\ ndist' = ndist + 1
              /\ Dirty
              /\ UNCHANGED <<req_rest, rough, coarse, probe, nclose, pipelining>>

\* A data call with an empty chunk.
RequestEmpty ==
    /\ MayDisturb
    /\ \E r \in {request_data(Fresh(connp), EmptyChunk)} :
       /\ connp' = r.c
       /\ last' = Call("request_data", connp, r, EmptyChunk, NoFault,
                       connp.request_state)
       /\ ndist' = ndist + 1
       /\ pipelining' = (pipelining \/ Pipelines(connp, r.c))
       /\ Dirty
       /\ UNCHANGED <<req_rest, res_rest, rough, coarse, probe, nclose>>

ResponseEmpty ==
    /\ MayDisturb
    /\ \E r \in {response_data(Fresh(connp), EmptyChunk)} :
       /\ connp' = r.c
       /\ last' = Call("response_data", connp, r, EmptyChunk, NoFault,
                       connp.response_state)
       /\ ndist' = ndist + 1
       /\ Dirty
       /\ UNCHANGED <<req_rest, res_rest, rough, coarse, probe, nclose, pipelining>>

Close ==
    /\ nclose < MaxClose
    /\ Opened \/ rough
    /\ \E r \in {close(Fresh(connp))} :
       /\ connp' = r.c
       /\ last' = [NoCall EXCEPT !.op = "close", !.rc = r.req_rc,
                                 !.rc2 = r.res_rc,
                                 !.pre_request_status = connp.request_status,
                                 !.pre_response_status = connp.response_status,
                                 !.pre_state = connp.response_state,
                                 !.pre_conn = connp.conn]
       /\ nclose' = nclose + 1
       /\ pipelining' = (pipelining \/ Pipelines(connp, r.c))
       /\ Dirty
       /\ UNCHANGED <<req_rest, res_rest, rough, coarse, probe, ndist>>

Next ==
    \/ Open
    \/ RequestData
    \/ ResponseData
    \/ RequestGap
    \/ ResponseGap
    \/ RequestEmpty
    \/ ResponseEmpty
    \/ Close

Spec == Init /\ [][Next]_vars


(***************************************************************************)
(* URL decoding (util.rs).  A byte is known by its code where the decoder  *)
(* computes with it.                                                       *)
(***************************************************************************)
ByteCodes ==
    [b \in {NUL, SP, "%", "+", "0", "1", "4", "A", "a", "u", "z"} |->
        CASE b = NUL -> 0 [] b = SP -> 32 [] b = "%" -> 37 [] b = "+" -> 43
          [] b = "0" -> 48 [] b = "1" -> 49 [] b = "4" -> 52 [] b = "A" -> 65
          [] b = "a" -> 97 [] b = "u" -> 117 [] b = "z" -> 122]
ByteCode(b) == ByteCodes[b]
ByteOfCode(n) ==
    IF \E b \in DOMAIN ByteCodes : ByteCodes[b] = n
    THEN CHOOSE b \in DOMAIN ByteCodes : ByteCodes[b] = n
    ELSE "\\x" \o ToString(n)

\* One hexadecimal digit as x2c reads it, whatever the byte is: the value
\* in u8 arithmetic and whether the subtraction overflowed.
x2c_digit(c) ==
    LET folded == IF (c \div 32) % 2 = 1 THEN c - 32 ELSE c
        v == IF c >= 65 THEN (folded - 65) + 10 ELSE c - 48
    IN [value |-> v % 256, overflow |-> v < 0 \/ v > 255]

\* Converts two bytes to the byte they spell in hexadecimal.  Arithmetic
\* overflow panics in a build with overflow checks and wraps otherwise.
x2c(input, checks) ==
    IF Len(input) < 2 THEN [ok |-> FALSE, panic |-> FALSE]
    ELSE LET d1 == x2c_digit(ByteCode(input[1]))
             d2 == x2c_digit(ByteCode(input[2]))
             high == (d1.value * 16) % 256
             overflow == d1.overflow \/ d2.overflow \/ high + d2.value > 255
         IN IF checks /\ overflow THEN [ok |-> FALSE, panic |-> TRUE]
            ELSE [ok |-> TRUE, panic |-> FALSE, rest |-> Drop(input, 2),
                  byte |-> ByteOfCode((high + d2.value) % 256)]

\* The best-fit map of the configuration: the replacement byte here.
bestfit_map_get(c1, c2) == "?"

\* Decode a %u-encoded character, params version.
decode_u_encoding_params(i, cfg) ==
    Let(x2c(i, cfg.overflow_checks), LAMBDA r1 :
    IF ~r1.ok THEN r1
    ELSE Let(x2c(r1.rest, cfg.overflow_checks), LAMBDA r2 :
         IF ~r2.ok THEN r2
         ELSE IF r1.byte = NUL
         THEN [ok |-> TRUE, panic |-> FALSE, byte |-> r2.byte,
               flags |-> {"URLEN_OVERLONG_U"}]
         ELSE [ok |-> TRUE, panic |-> FALSE,
               byte |-> bestfit_map_get(r1.byte, r2.byte), flags |-> {}]))

\* What one step of the decoder yields: the input left, the byte, the
\* status a server would answer with, flags, and whether the byte is output.
Decoded(rest, byte, code, flags, insert) ==
    [ok |-> TRUE, panic |-> FALSE, rest |-> rest, byte |-> byte,
     code |-> code, flags |-> flags, insert |-> insert]
Panicked == [ok |-> FALSE, panic |-> TRUE]

\* The alternatives of url_decode_percent for the input after the '%'.
url_decode_after_percent(input, cfg) ==
    LET u == input # <<>> /\ input[1] \in {"u", "U"}
        left == Drop(input, 1)
        handling == cfg.url_encoding_invalid_handling
        invalid == cfg.url_encoding_invalid_unwanted
        truncated == Decoded(input, "%", invalid, {"URLEN_INVALID_ENCODING"},
                             handling # "REMOVE_PERCENT")
    IN IF u /\ ~cfg.u_encoding_decode
       THEN Decoded(input, "%", "IGNORE", {}, TRUE)
       ELSE IF u /\ Len(left) >= 4 /\ \A k \in 1..4 : is_ascii_hexdigit(left[k])
       THEN Let(decode_u_encoding_params(Take(left, 4), cfg), LAMBDA d :
            IF d.panic THEN Panicked
            ELSE Decoded(Drop(left, 4), d.byte, cfg.u_encoding_unwanted,
                         d.flags, TRUE))
       ELSE IF u /\ Len(left) >= 4
       THEN LET code == IF invalid # "IGNORE" THEN invalid
                        ELSE cfg.u_encoding_unwanted
                f == {"URLEN_INVALID_ENCODING"}
            IN CASE handling = "REMOVE_PERCENT" ->
                      Decoded(input, "%", code, f, FALSE)
                 [] handling = "PROCESS_INVALID" ->
                      Let(decode_u_encoding_params(Take(left, 4), cfg), LAMBDA d :
                      IF d.panic THEN Panicked
                      ELSE Decoded(Drop(left, 4), d.byte, code,
                                   f \cup d.flags, TRUE))
                 [] OTHER -> Decoded(input, "%", code, f, TRUE)
       ELSE IF u THEN truncated
       ELSE IF Len(input) >= 2 /\ is_ascii_hexdigit(input[1])
                 /\ is_ascii_hexdigit(input[2])
       THEN Let(x2c(input, cfg.overflow_checks), LAMBDA d :
            Decoded(d.rest, d.byte, "IGNORE", {}, TRUE))
       ELSE CASE handling = "REMOVE_PERCENT" ->
                   Decoded(input, "%", invalid, {"URLEN_INVALID_ENCODING"}, FALSE)
              [] handling = "PROCESS_INVALID" ->
                   Let(x2c(input, cfg.overflow_checks), LAMBDA d :
                   IF d.panic THEN Panicked
                   ELSE IF ~d.ok THEN truncated
                   ELSE Decoded(d.rest, d.byte, invalid,
                                {"URLEN_INVALID_ENCODING"}, TRUE))
              [] OTHER ->
                   Decoded(input, "%", invalid, {"URLEN_INVALID_ENCODING"}, TRUE)

\* Decodes a '%' and what follows it; an encoded NUL may end the string.
url_decode_percent(input, cfg) ==
    Let(url_decode_after_percent(Drop(input, 1), cfg), LAMBDA d :
    IF d.panic THEN d
    ELSE IF d.byte = NUL
    THEN LET code == IF cfg.nul_encoded_unwanted # "IGNORE"
                     THEN cfg.nul_encoded_unwanted ELSE d.code
             flags == d.flags \cup {"URLEN_ENCODED_NUL"}
         IN IF cfg.nul_encoded_terminates
            THEN Decoded(<<>>, d.byte, code, flags, FALSE)
            ELSE Decoded(d.rest, d.byte, code, flags, d.insert)
    ELSE d)

\* A '+' stands for a space if the configuration says so.
url_decode_plus(input, cfg) ==
    Decoded(Drop(input, 1), IF cfg.plusspace_decode THEN SP ELSE "+",
            "IGNORE", {}, TRUE)

\* Variant of url_parse_unencoded_byte that puts a space for a raw NUL.
url_parse_unencoded_byte_blanking(input, cfg) ==
    IF input[1] = NUL
    THEN Decoded(Drop(input, 1), SP, cfg.nul_raw_unwanted, {"URLEN_RAW_NUL"}, TRUE)
    ELSE Decoded(Drop(input, 1), input[1], "IGNORE", {}, TRUE)

\* The next byte as it is; a raw NUL is flagged and may end the string.
url_parse_unencoded_byte(input, cfg) ==
    IF input[1] = NUL
    THEN Decoded(IF cfg.nul_raw_terminates THEN <<>> ELSE Drop(input, 1),
                 input[1], cfg.nul_raw_unwanted, {"URLEN_RAW_NUL"},
                 ~cfg.nul_raw_terminates)
    ELSE Decoded(Drop(input, 1), input[1], "IGNORE", {}, TRUE)

RECURSIVE urldecode_fold(_, _, _)
urldecode_fold(input, cfg, acc) ==
    IF input = <<>> THEN acc
    ELSE Let(CASE input[1] = "%" -> url_decode_percent(input, cfg)
               [] input[1] = "+" -> url_decode_plus(input, cfg)
               [] OTHER -> url_parse_unencoded_byte(input, cfg), LAMBDA d :
         IF d.panic THEN [acc EXCEPT !.panic = TRUE]
         ELSE urldecode_fold(d.rest, cfg,
                [acc EXCEPT
                   !.out = IF d.insert THEN Append(@, d.byte) ELSE @,
                   !.flags = @ \cup d.flags,
                   !.code = IF d.code # "IGNORE" THEN d.code ELSE @]))

\* Decodes the whole input according to the configuration.
urldecode_ex(input, cfg) ==
    urldecode_fold(input, cfg,
                   [out |-> <<>>, flags |-> {}, code |-> "IGNORE", panic |-> FALSE])


(***************************************************************************)
(* The multipart parser (htp_multipart.rs) for the boundary parameter "b". *)
(* A part is a record in the list of parts; current_part is its index, 0   *)
(* where the source holds a null pointer; a string that may be null is the *)
(* empty tuple or the tuple of the string.  delivered collects the bytes   *)
(* given to handle_data, and after_last tells of a part that the last      *)
(* boundary had been seen when it was created.                             *)
(***************************************************************************)
\* multipart.boundary as htp_mpartp_init_boundary builds it.
MpBoundary == <<CR, LF, "-", "-", "b">>
ContentDispositionName ==
    <<"c","o","n","t","e","n","t","-","d","i","s","p","o","s","i","t","i","o","n">>
FormData == <<"f","o","r","m","-","d","a","t","a">>
is_ascii_whitespace(b) == b \in {SP, HT, LF, CR, "\f"}
htp_is_lws(b) == b \in {SP, HT}
take_ascii_whitespace(s) == Drop(s, PrefixLen(s, is_ascii_whitespace))
StartsWith(s, word) == Len(s) >= Len(word) /\ Take(s, Len(word)) = word

NewMpartp ==
    [parser_state |-> "BOUNDARY", boundary_match_pos |-> 2,
     boundary_candidate_pos |-> 0, cr_aside |-> FALSE,
     boundary_pieces |-> <<>>, flags |-> {}, boundary_count |-> 0,
     parts |-> <<>>, current_part |-> 0, current_part_mode |-> "LINE",
     part_header_pieces |-> <<>>, pending_header_line |-> <<>>,
     part_data_pieces |-> <<>>, delivered |-> <<>>]

NewPart ==
    [type |-> "UNKNOWN", len |-> 0, name |-> <<>>, file |-> <<>>,
     file_len |-> 0, headers |-> <<>>, value |-> <<>>, after_last |-> FALSE]

MpFlag(p, flag) == [p EXCEPT !.flags = @ \cup {flag}]

\* The value of a quoted parameter: the bytes up to the closing quote, with
\* \" and \\ unescaped.
RECURSIVE cd_param_value(_, _)
cd_param_value(s, acc) ==
    IF s = <<>> THEN [ok |-> FALSE]
    ELSE IF s[1] = "\""
    THEN [ok |-> TRUE, rest |-> Drop(s, 1), value |-> acc]
    ELSE IF s[1] = "\\"
    THEN IF Len(s) >= 2 /\ s[2] \in {"\"", "\\"}
         THEN cd_param_value(Drop(s, 2), Append(acc, s[2]))
         ELSE [ok |-> FALSE]
    ELSE cd_param_value(Drop(s, 1), Append(acc, s[1]))

\* content_disposition_param: ; name = "value"
content_disposition_param(input) ==
    Let(take_ascii_whitespace(input), LAMBDA s1 :
       IF s1 = <<>> \/ s1[1] # ";" THEN [ok |-> FALSE]
       ELSE
    Let(take_ascii_whitespace(Drop(s1, 1)), LAMBDA s2 :
    LET isname(c) == c # "=" /\ ~is_ascii_whitespace(c)
        n == PrefixLen(s2, isname)
    IN
    Let(take_ascii_whitespace(Drop(s2, n)), LAMBDA s3 :
       IF s3 = <<>> \/ s3[1] # "=" THEN [ok |-> FALSE]
       ELSE
    Let(take_ascii_whitespace(Drop(s3, 1)), LAMBDA s4 :
       IF s4 = <<>> \/ s4[1] # "\"" THEN [ok |-> FALSE]
       ELSE
    Let(cd_param_value(Drop(s4, 1), <<>>), LAMBDA v :
       IF ~v.ok THEN [ok |-> FALSE]
       ELSE [ok |-> TRUE, rest |-> v.rest, name |-> Take(s2, n),
             value |-> v.value])))))

\* The parameters read by fold_many1 and what is left after them.
RECURSIVE cd_params(_, _)
cd_params(input, acc) ==
    Let(content_disposition_param(input), LAMBDA r :
       IF ~r.ok THEN [params |-> acc, rest |-> input]
       ELSE
    Let(take_ascii_whitespace(r.rest), LAMBDA s1 :
    LET s2 == IF s1 # <<>> /\ s1[1] = ","
                 /\ StartsWith(take_ascii_whitespace(Drop(s1, 1)), FormData)
              THEN Drop(take_ascii_whitespace(Drop(s1, 1)), Len(FormData))
              ELSE s1
    IN cd_params(take_ascii_whitespace(s2),
                 Append(acc, [name |-> r.name, value |-> r.value]))))

\* content_disposition: form-data and its parameters, nothing after them but
\* an optional semicolon.
content_disposition(input) ==
    IF ~StartsWith(input, FormData) THEN [ok |-> FALSE]
    ELSE
    Let(cd_params(Drop(input, Len(FormData)), <<>>), LAMBDA r :
    LET s1 == take_ascii_whitespace(r.rest)
        s2 == IF s1 # <<>> /\ s1[1] = ";" THEN Drop(s1, 1) ELSE s1
    IN IF r.params = <<>> \/ take_ascii_whitespace(s2) # <<>>
       THEN [ok |-> FALSE]
       ELSE [ok |-> TRUE, params |-> r.params])

\* The parameters of Content-Disposition applied to the current part one by
\* one; a repeated or unknown parameter ends the processing.
RECURSIVE cd_apply(_, _)
cd_apply(p, params) ==
    IF params = <<>> THEN p
    ELSE LET cp == p.current_part
             param == Head(params)
         IN IF param.name = <<"n","a","m","e">>
            THEN IF p.parts[cp].name # <<>>
                 THEN MpFlag(p, "CD_PARAM_REPEATED")
                 ELSE cd_apply([p EXCEPT !.parts[cp].name = <<param.value>>],
                               Tail(params))
            ELSE IF param.name = <<"f","i","l","e","n","a","m","e">>
            THEN IF p.parts[cp].file # <<>>
                 THEN MpFlag(p, "CD_PARAM_REPEATED")
                 ELSE cd_apply([p EXCEPT !.parts[cp].file = <<param.value>>],
                               Tail(params))
            ELSE MpFlag(p, "CD_PARAM_UNKNOWN")

\* htp_mpart_part_parse_c_d: the name and the file name of the current part
\* from its Content-Disposition header.
htp_mpart_part_parse_c_d(p) ==
    LET headers == p.parts[p.current_part].headers
        i == HeaderIndex(headers, ContentDispositionName)
    IN IF i = 0 THEN MpFlag(p, "PART_UNKNOWN")
       ELSE Let(content_disposition(headers[i].value), LAMBDA r :
               IF r.ok THEN cd_apply(p, r.params)
               ELSE MpFlag(p, "CD_SYNTAX_INVALID"))

\* htp_mpartp_parse_header: one header line of the current part.
htp_mpartp_parse_header(p, input) ==
    IF IndexOf(input, NUL) # 0 THEN MpFlag(p, "NUL_BYTE")
    ELSE
    LET n == PrefixLen(input, is_token)
        after == Drop(input, n + 1)
        value == Drop(after, PrefixLen(after, is_space))
        name == Take(input, n)
        cp == p.current_part
        i == HeaderIndex(p.parts[cp].headers, name)
        p1 == IF EqNoCase(name, ContentDispositionName)
                 \/ EqNoCase(name, ContentTypeName)
              THEN p ELSE MpFlag(p, "PART_HEADER_UNKNOWN")
    IN IF n = 0 \/ Len(input) <= n \/ input[n + 1] # ":" \/ value = <<>>
       THEN MpFlag(p, "PART_HEADER_INVALID")
       ELSE IF i # 0
       THEN MpFlag([p1 EXCEPT !.parts[cp].headers[i].value =
                                 @ \o <<",", SP>> \o value,
                              !.parts[cp].headers[i].flags =
                                 @ \cup {"PART_HEADER_REPEATED"}],
                   "PART_HEADER_REPEATED")
       ELSE [p1 EXCEPT !.parts[cp].headers =
                Append(@, [name |-> name, value |-> value, flags |-> {}])]

\* The line without its line ending, as htp_mpart_part_handle_data cuts it.
MpLineLen(data) ==
    LET len == Len(data)
    IN IF len > 1
       THEN LET l1 == IF data[len] = LF THEN len - 1 ELSE len
            IN IF data[l1] = CR THEN l1 - 1 ELSE l1
       ELSE IF len > 0 /\ data[len] = LF THEN len - 1 ELSE len

\* The end of a part's headers: the pending header is parsed, the headers
\* are processed and the part turns to its data.
MpEndOfHeaders(p) ==
    Let(IF p.pending_header_line # <<>>
        THEN [htp_mpartp_parse_header(p, p.pending_header_line[1])
                 EXCEPT !.pending_header_line = <<>>]
        ELSE p, LAMBDA p1 :
    Let(htp_mpart_part_parse_c_d(p1), LAMBDA p2 :
    LET cp == p2.current_part
        p3 == [p2 EXCEPT !.current_part_mode = "DATA",
                         !.part_header_pieces = <<>>]
    IN IF p3.parts[cp].file # <<>>
       THEN [p3 EXCEPT !.parts[cp].type = "FILE"]
       ELSE IF p3.parts[cp].name # <<>>
       THEN [p3 EXCEPT !.parts[cp].type = "TEXT", !.part_data_pieces = <<>>]
       ELSE p3))

\* htp_mpart_part_handle_data: data, or a line when is_line is set, for the
\* current part.
htp_mpart_part_handle_data(p0, data0, is_line) ==
    LET cp == p0.current_part
        p1 == [p0 EXCEPT !.parts[cp].len = @ + Len(data0)]
        p == IF "SEEN_LAST_BOUNDARY" \in p1.flags /\ p1.parts[cp].type = "UNKNOWN"
             THEN [p1 EXCEPT !.part_data_pieces = @ \o data0]
             ELSE p1
    IN IF p.current_part_mode = "LINE"
       THEN IF is_line
            THEN LET combined == p.part_header_pieces # <<>>
                     data == IF combined THEN p.part_header_pieces \o data0
                             ELSE data0
                     pc == IF combined THEN [p EXCEPT !.part_header_pieces = <<>>]
                           ELSE p
                     len == MpLineLen(data)
                     \* a line put together from pieces is kept whole
                     kept == IF combined THEN data ELSE Take(data, len)
                 IN IF len = 0 THEN MpEndOfHeaders(pc)
                    ELSE IF pc.pending_header_line = <<>>
                    THEN [pc EXCEPT !.pending_header_line = <<kept>>]
                    ELSE IF is_ascii_whitespace(data[1])
                    THEN [MpFlag(pc, "PART_HEADER_FOLDING")
                             EXCEPT !.pending_header_line =
                                       <<@[1] \o Take(data, len)>>]
                    ELSE [htp_mpartp_parse_header(pc, pc.pending_header_line[1])
                             EXCEPT !.pending_header_line = <<kept>>]
            ELSE [p EXCEPT !.part_header_pieces = @ \o data0]
       ELSE IF p.parts[cp].type = "FILE"
            THEN [p EXCEPT !.parts[cp].file_len = @ + Len(data0)]
            ELSE [p EXCEPT !.part_data_pieces = @ \o data0]

\* htp_mpartp_handle_data: the data goes to the current part, which is
\* created if there is none.
htp_mpartp_handle_data(p, data, is_line) ==
    IF data = <<>> THEN p
    ELSE
    LET created ==
            IF p.boundary_count = 0
            THEN [MpFlag(p, "HAS_PREAMBLE")
                     EXCEPT !.parts = Append(@, [NewPart EXCEPT !.type = "PREAMBLE"]),
                            !.current_part = Len(p.parts) + 1,
                            !.current_part_mode = "DATA",
                            !.part_data_pieces = <<>>,
                            !.part_header_pieces = <<>>]
            ELSE [p EXCEPT !.parts =
                              Append(@, [NewPart EXCEPT !.after_last =
                                            "SEEN_LAST_BOUNDARY" \in p.flags]),
                           !.current_part = Len(p.parts) + 1,
                           !.current_part_mode = "LINE",
                           !.part_data_pieces = <<>>,
                           !.part_header_pieces = <<>>]
        p1 == IF p.current_part = 0 THEN created ELSE p
    IN htp_mpart_part_handle_data([p1 EXCEPT !.delivered = @ \o data],
                                  data, is_line)

\* htp_mpart_part_finalize_data: the current part ends.
htp_mpart_part_finalize_data(p) ==
    LET cp == p.current_part
        unknown == p.parts[cp].type = "UNKNOWN"
        p1 == IF "SEEN_LAST_BOUNDARY" \in p.flags
              THEN IF unknown
                   THEN [p EXCEPT !.parts[cp].type = "EPILOGUE",
                                  !.flags = @ \cup {"HAS_EPILOGUE"}
                                     \cup (IF "HAS_EPILOGUE" \in p.flags
                                           THEN {"PART_UNKNOWN"} ELSE {})]
                   ELSE MpFlag(p, "PART_AFTER_LAST_BOUNDARY")
              ELSE p
        p2 == IF p1.parts[cp].type # "EPILOGUE" /\ p1.current_part_mode # "DATA"
              THEN MpFlag(p1, "PART_INCOMPLETE") ELSE p1
        p3 == IF p2.parts[cp].type = "UNKNOWN"
              THEN MpFlag(p2, "PART_UNKNOWN") ELSE p2
    IN IF p3.parts[cp].type # "FILE" /\ p3.part_data_pieces # <<>>
       THEN [p3 EXCEPT !.parts[cp].value = <<p3.part_data_pieces>>,
                       !.part_data_pieces = <<>>]
       ELSE p3

\* htp_mpartp_handle_boundary: a boundary ends the current part.
htp_mpartp_handle_boundary(p) ==
    IF p.current_part # 0
    THEN [htp_mpart_part_finalize_data(p)
             EXCEPT !.current_part = 0, !.current_part_mode = "LINE"]
    ELSE p

\* The first stored piece after a boundary match: what precedes the line
\* ending of the boundary line.
MpBeforeLineEnd(b, pos) ==
    LET l1 == IF pos > 0 /\ b[pos] = LF THEN pos - 1 ELSE pos
    IN IF l1 < pos /\ l1 > 0 /\ b[l1] = CR THEN Take(b, l1 - 1) ELSE Take(b, l1)

\* The stored pieces from the second one on, handed over as data.
RECURSIVE MpPiecesAsData(_, _)
MpPiecesAsData(p, pieces) ==
    IF pieces = <<>> THEN p
    ELSE MpPiecesAsData(htp_mpartp_handle_data(p, Head(pieces), FALSE),
                        Tail(pieces))

\* htp_martp_process_aside: the bytes set aside while a boundary was being
\* tested, after the test has matched or failed.
htp_martp_process_aside(p, matched) ==
    IF matched \/ p.current_part_mode = "LINE"
    THEN LET p1 == IF ~matched /\ p.cr_aside
                   THEN [htp_mpartp_handle_data(p, <<CR>>, FALSE)
                            EXCEPT !.cr_aside = FALSE]
                   ELSE [p EXCEPT !.cr_aside = FALSE]
             first == Head(p1.boundary_pieces)
             cand == p1.boundary_candidate_pos
         IN IF p1.boundary_pieces = <<>> THEN p1
            ELSE IF matched
            THEN [htp_mpartp_handle_data(p1, MpBeforeLineEnd(first, cand), FALSE)
                     EXCEPT !.boundary_pieces = <<>>]
            ELSE [MpPiecesAsData(
                     htp_mpartp_handle_data(
                        htp_mpartp_handle_data(p1, Take(first, cand), TRUE),
                        Drop(first, cand), FALSE),
                     Tail(p1.boundary_pieces))
                     EXCEPT !.boundary_pieces = <<>>]
    ELSE LET p1 == IF p.cr_aside
                   THEN [htp_mpartp_handle_data(p, <<CR>>, FALSE)
                            EXCEPT !.cr_aside = FALSE]
                   ELSE p
         IN [MpPiecesAsData(p1, p1.boundary_pieces)
                EXCEPT !.boundary_pieces = <<>>]

\* htp_mpartp_finalize: the end of the body.
htp_mpartp_finalize(p) ==
    IF p.current_part # 0
    THEN Let(htp_mpart_part_finalize_data(htp_martp_process_aside(p, FALSE)),
             LAMBDA p1 :
                [p1 EXCEPT !.boundary_pieces = <<>>,
                           !.flags = IF p1.parts[p1.current_part].type # "EPILOGUE"
                                     THEN @ \cup {"INCOMPLETE"} ELSE @])
    ELSE [p EXCEPT !.boundary_pieces = <<>>]

\* A boundary has matched in full: the data before it ends the current part.
MpBoundaryMatched(p, data, startpos, ret) ==
    LET d0 == ret - startpos
        d1 == IF d0 > 0 /\ data[startpos + d0] = LF THEN d0 - 1 ELSE d0
        d2 == IF d1 > 0 /\ data[startpos + d1] = CR THEN d1 - 1 ELSE d1
    IN Let(htp_mpartp_handle_data(htp_martp_process_aside(p, TRUE),
                                  SubSeq(data, startpos + 1, startpos + d2), TRUE),
           LAMBDA p1 :
              [htp_mpartp_handle_boundary(
                  [p1 EXCEPT !.boundary_count = @ + 1,
                             !.flags = IF "SEEN_LAST_BOUNDARY" \in @
                                       THEN @ \cup {"PART_AFTER_LAST_BOUNDARY"}
                                       ELSE @])
                  EXCEPT !.parser_state = "BOUNDARY_IS_LAST2"])

\* The bytes from pos on that are neither CR nor LF: in the DATA state the
\* loop passes each of them with pos += 1 and nothing else, once the first
\* of them has seen to a CR set aside.
MpOrdinaryRun(data, pos) ==
    PrefixLen(SubSeq(data, pos + 1, Len(data)), LAMBDA c : c \notin {CR, LF})

\* The loop of htp_mpartp_parse over one chunk: pos, startpos and
\* data_return_pos (ret) are its positions; guarded tells that the loop's
\* test pos < len is made before the state is looked at; oob is the byte
\* found behind the chunk when the parser reads there.
RECURSIVE mpartp_loop(_, _, _, _, _, _, _)
mpartp_loop(p, data, pos, startpos, ret, oob, guarded) ==
    LET len == Len(data)
        b == IF pos < len THEN data[pos + 1] ELSE oob
    IN
    IF guarded /\ pos >= len THEN p
    ELSE IF p.parser_state = "DATA"
    THEN IF pos >= len
         THEN htp_mpartp_handle_data(p,
                 SubSeq(data, startpos + 1, pos - (IF p.cr_aside THEN 1 ELSE 0)),
                 FALSE)
         ELSE IF b = CR
         THEN IF pos + 1 = len
              THEN mpartp_loop([p EXCEPT !.cr_aside = TRUE],
                               data, pos + 1, startpos, ret, oob, FALSE)
              ELSE IF data[pos + 2] = LF
              THEN mpartp_loop(
                      [MpFlag(p, "CRLF_LINE")
                          EXCEPT !.boundary_candidate_pos = pos + 2 - startpos,
                                 !.boundary_match_pos = 2,
                                 !.parser_state = "BOUNDARY"],
                      data, pos + 2, startpos, pos + 2, oob, FALSE)
              ELSE mpartp_loop([p EXCEPT !.cr_aside = FALSE],
                               data, pos + 1, startpos, ret, oob, FALSE)
         ELSE IF b = LF
         THEN mpartp_loop(
                 [MpFlag(p, IF p.cr_aside THEN "CRLF_LINE" ELSE "LF_LINE")
                     EXCEPT !.boundary_candidate_pos = pos + 1 - startpos,
                            !.boundary_match_pos = 2,
                            !.parser_state = "BOUNDARY"],
                 data, pos + 1, startpos, pos + 1, oob, FALSE)
         ELSE mpartp_loop(
                 IF p.cr_aside
                 THEN [htp_mpartp_handle_data(p, <<CR>>, FALSE)
                          EXCEPT !.cr_aside = FALSE]
                 ELSE p,
                 data, pos + MpOrdinaryRun(data, pos), startpos, ret, oob,
                 FALSE)
    ELSE IF p.parser_state = "BOUNDARY"
    THEN IF pos >= len
         THEN [p EXCEPT !.boundary_pieces =
                  Append(@, SubSeq(data, startpos + 1, len))]
         ELSE IF b # MpBoundary[p.boundary_match_pos + 1]
         THEN Let(htp_martp_process_aside(p, FALSE), LAMBDA p1 :
                 IF p1.current_part_mode = "LINE"
                 THEN mpartp_loop(
                         [htp_mpartp_handle_data(p1,
                             SubSeq(data, startpos + 1, ret), TRUE)
                             EXCEPT !.parser_state = "DATA"],
                         data, pos, ret, ret, oob, FALSE)
                 ELSE mpartp_loop([p1 EXCEPT !.parser_state = "DATA"],
                                  data, ret, startpos, ret, oob, FALSE))
         ELSE IF p.boundary_match_pos + 1 # Len(MpBoundary)
         THEN mpartp_loop([p EXCEPT !.boundary_match_pos = @ + 1],
                          data, pos + 1, startpos, ret, oob, FALSE)
         ELSE mpartp_loop(
                 MpBoundaryMatched([p EXCEPT !.boundary_match_pos = @ + 1],
                                   data, startpos, ret),
                 data, pos + 1, startpos, ret, oob, FALSE)
    ELSE IF p.parser_state = "BOUNDARY_IS_LAST2"
    THEN IF b = "-"
         THEN mpartp_loop([p EXCEPT !.parser_state = "BOUNDARY_IS_LAST1"],
                          data, pos + 1, startpos, ret, oob, TRUE)
         ELSE mpartp_loop([p EXCEPT !.parser_state = "BOUNDARY_EAT_LWS"],
                          data, pos, startpos, ret, oob, TRUE)
    ELSE IF p.parser_state = "BOUNDARY_IS_LAST1"
    THEN IF b = "-"
         THEN mpartp_loop(
                 [MpFlag(p, "SEEN_LAST_BOUNDARY")
                     EXCEPT !.parser_state = "BOUNDARY_EAT_LWS"],
                 data, pos + 1, startpos, ret, oob, TRUE)
         ELSE mpartp_loop(
                 [MpFlag(p, "BBOUNDARY_NLWS_AFTER")
                     EXCEPT !.parser_state = "BOUNDARY_EAT_LWS"],
                 data, pos, startpos, ret, oob, TRUE)
    ELSE IF p.parser_state = "BOUNDARY_EAT_LWS"
    THEN IF b = CR
         THEN mpartp_loop([p EXCEPT !.parser_state = "BOUNDARY_EAT_LWS_CR"],
                          data, pos + 1, startpos, ret, oob, TRUE)
         ELSE IF b = LF
         THEN mpartp_loop(
                 [MpFlag(p, "LF_LINE") EXCEPT !.parser_state = "DATA"],
                 data, pos + 1, pos + 1, ret, oob, TRUE)
         ELSE mpartp_loop(
                 MpFlag(p, IF htp_is_lws(b) THEN "BBOUNDARY_LWS_AFTER"
                           ELSE "BBOUNDARY_NLWS_AFTER"),
                 data, pos + 1, startpos, ret, oob, TRUE)
    ELSE IF b = LF
         THEN mpartp_loop(
                 [MpFlag(p, "CRLF_LINE") EXCEPT !.parser_state = "DATA"],
                 data, pos + 1, pos + 1, ret, oob, TRUE)
         ELSE mpartp_loop(
                 [MpFlag(p, "BBOUNDARY_NLWS_AFTER")
                     EXCEPT !.parser_state = "BOUNDARY_EAT_LWS"],
                 data, pos, startpos, ret, oob, TRUE)

\* htp_mpartp_parse: one chunk of the body.
htp_mpartp_parse(p, data, oob) == mpartp_loop(p, data, 0, 0, 0, oob, TRUE)


(***************************************************************************)
(* Hostname validation (util.rs).  A name is a sequence of bytes; the byte *)
(* 0xE9, a letter of Latin-1, stands for the bytes above 0x7F that a cast  *)
(* to char turns into an alphanumeric character.                           *)
(***************************************************************************)
MaxHostnameLen == 255
MaxLabelLen == 63
LATIN_E9 == "\\xE9"
\* char::is_alphanumeric of the byte cast to char.
is_alphanumeric(c) ==
    \/ \E i \in 1..26 : Upper[i] = c \/ Lower[i] = c
    \/ is_ascii_digit(c)
    \/ c = LATIN_E9

\* slice::split on '.': the sections between the dots, empty ones included.
RECURSIVE split_on_dot(_)
split_on_dot(s) ==
    LET n == PrefixLen(s, LAMBDA c : c # ".")
    IN  IF n = Len(s) THEN <<s>>
        ELSE <<Take(s, n)>> \o split_on_dot(Drop(s, n + 1))

\* take_until("..") finds two dots in a row.
HasTwoDots(s) == \E i \in 1..Len(s) - 1 : s[i] = "." /\ s[i + 1] = "."
\* Every byte of the section is '-' or alphanumeric, and it is not too long.
section_ok(section) ==
    /\ Len(section) <= MaxLabelLen
    /\ \A i \in 1..Len(section) :
          section[i] = "-" \/ is_alphanumeric(section[i])
\* After '[', the bytes up to the first of "#?/]" must be followed by ']'.
bracketed_ok(input) ==
    LET n == PrefixLen(input, LAMBDA c : c \notin {"#", "?", "/", "]"})
    IN  n < Len(input) /\ input[n + 1] = "]"

\* The validation without its test for a leading dot and for two dots in
\* a row.
validate_hostname_gaps(input) ==
    IF input = <<>> \/ Len(input) > MaxHostnameLen THEN FALSE
    ELSE IF input[1] = "[" THEN bracketed_ok(input)
    ELSE LET sections == split_on_dot(input)
         IN  \A k \in 1..Len(sections) : section_ok(sections[k])

validate_hostname(input) ==
    IF input = <<>> \/ Len(input) > MaxHostnameLen THEN FALSE
    ELSE IF input[1] = "[" THEN bracketed_ok(input)
    ELSE IF input[1] = "." \/ HasTwoDots(input) THEN FALSE
    ELSE LET sections == split_on_dot(input)
         IN  \A k \in 1..Len(sections) : section_ok(sections[k])


(***************************************************************************)
(* The parsing functions on their own: a status field is parsed, a header  *)
(* line is stored again and again in the header table of one message.      *)
(***************************************************************************)
StatusBytes == {"0", "1", "2", "9", SP, HT, "x"}
StatusInputs == UNION {[1..k -> StatusBytes] : k \in 0..MaxStatusLen}

HeaderValues == {<<"a">>, <<"b">>}
\* The line of the n-th occurrence of the header; its value varies over the
\* first occurrences only.
HeaderLines(n) ==
    {<<"H", ":", SP>> \o v \o <<LF>> :
        v \in IF n <= MaxVaried THEN HeaderValues ELSE {<<"a">>}}

\* The pieces an encoded string is made of, and the strings of up to
\* MaxPieces of them.
UrlPieces ==
    {<<"a">>, <<NUL>>, <<"+">>, <<"%">>, <<"%", "4", "1">>, <<"%", "0", "0">>,
     <<"%", "z", "1">>, <<"%", "+", "1">>, <<"%", "u", "0", "0", "4", "1">>}
RECURSIVE Concat(_)
Concat(ss) == IF ss = <<>> THEN <<>> ELSE Head(ss) \o Concat(Tail(ss))
UrlInputs ==
    {Concat(ps) : ps \in UNION {[1..k -> UrlPieces] : k \in 0..MaxPieces}}

\* The decoder configurations and the two builds: every switch, and the
\* unwanted-statuses either all off or all set.
DecoderConfigs ==
    {[u_encoding_decode |-> ud, url_encoding_invalid_handling |-> h,
      nul_raw_terminates |-> nr, nul_encoded_terminates |-> ne,
      plusspace_decode |-> pl, overflow_checks |-> oc,
      u_encoding_unwanted |-> IF uw THEN "CODE_400" ELSE "IGNORE",
      url_encoding_invalid_unwanted |-> IF uw THEN "CODE_400" ELSE "IGNORE",
      nul_encoded_unwanted |-> IF uw THEN "CODE_404" ELSE "IGNORE",
      nul_raw_unwanted |-> IF uw THEN "CODE_404" ELSE "IGNORE"] :
        ud \in BOOLEAN, nr \in BOOLEAN, ne \in BOOLEAN, pl \in BOOLEAN,
        oc \in BOOLEAN, uw \in BOOLEAN,
        h \in {"PRESERVE_PERCENT", "REMOVE_PERCENT", "PROCESS_INVALID"}}

\* Bodies cut into chunks anywhere: up to MaxBodyPieces of a data byte, CR,
\* LF, a dash and the boundary text.
BodyPieces ==
    {<<"a">>, <<CR>>, <<LF>>, <<"-">>, <<"-", "-", "b">>}
Bodies ==
    {Concat(ps) : ps \in UNION {[1..k -> BodyPieces] : k \in 1..MaxBodyPieces}}

\* Bodies cut into chunks between their sections: a boundary line, the last
\* boundary line, a text part with its headers, and one data byte.
TextPart ==
    <<"C","o","n","t","e","n","t","-","D","i","s","p","o","s","i","t","i","o","n",
      ":","f","o","r","m","-","d","a","t","a",";","n","a","m","e","=","\"","a","\"",
      LF, LF, "v">>
Sections ==
    {<<LF, "-", "-", "b", LF>>, <<LF, "-", "-", "b", "-", "-", LF>>,
     TextPart, <<"x">>}
SectionedBodies == UNION {[1..k -> Sections] : k \in 1..MaxSections}

\* The bytes the parser may find behind a chunk.
BytesBehind == {"-", NUL}

MultipartProbe(body) ==
    [fn |-> "multipart", cut |-> "bytes", rest |-> body, chunks |-> <<>>,
     fed |-> <<>>, mp |-> NewMpartp, done |-> FALSE]
SectionsProbe(sections) ==
    [fn |-> "multipart", cut |-> "sections", rest |-> Concat(sections),
     chunks |-> sections, fed |-> <<>>, mp |-> NewMpartp, done |-> FALSE]

\* The lengths the next chunk of a body may have.
BodyChunkLens(p) ==
    IF p.chunks # <<>> THEN {Len(Head(p.chunks))}
    ELSE 1..Min(MaxBodyChunk, Len(p.rest))

\* Names to validate: up to MaxHostPieces pieces, one of which is a run of
\* MaxLabelLen letters, and long names of up to MaxLongLabels such runs
\* joined by dots, with or without something behind them.
LongLabel == [i \in 1..MaxLabelLen |-> "a"]
HostPieces ==
    {<<"a">>, <<"1">>, <<"-">>, <<".">>, <<LATIN_E9>>, <<"!">>, <<"[">>,
     <<"]">>, <<"#">>, LongLabel}
HostPieceSeqs(n) == [1..n -> HostPieces]
RECURSIVE JoinLabels(_)
JoinLabels(n) ==
    IF n = 1 THEN LongLabel ELSE JoinLabels(n - 1) \o <<".">> \o LongLabel
LongNames ==
    {JoinLabels(n) \o tail : n \in 1..MaxLongLabels,
                             tail \in {<<>>, <<".">>, <<".", "a">>}}
HostInputs ==
    {Concat(ps) : ps \in UNION {HostPieceSeqs(n) : n \in 0..MaxHostPieces}}
        \cup LongNames
HostProbe == [fn |-> "validate_hostname", applied |-> FALSE]

UrlProbe == [fn |-> "urldecode", applied |-> FALSE]

StatusProbe(s) == [fn |-> "parse_status", input |-> s, applied |-> FALSE, out |-> None]
HeaderProbe == [fn |-> "process_header", values |-> <<>>, headers |-> <<>>, reps |-> 0]
LinesProbe ==
    [fn |-> "parse_headers", lines |-> <<>>, header |-> None, txflags |-> {},
     headers |-> <<>>, reps |-> 0, log |-> <<>>]
MessageProbe ==
    [fn |-> "store_headers", n |-> 0, others |-> 0, lengths |-> 0,
     header |-> None, headers |-> <<>>, reps |-> 0, logs |-> {}]

FnInit ==
    /\ connp = NewConnp
    /\ req_rest = <<>> /\ res_rest = <<>>
    /\ rough = FALSE /\ coarse = FALSE
    /\ last = NoCall
    /\ ndist = 0 /\ nclose = 0
    /\ res_base = NewConnp /\ res_fed = <<>> /\ clean = TRUE
    /\ pipelining = FALSE
    /\ probe \in {StatusProbe(s) : s \in StatusInputs}
                   \cup {HeaderProbe, MessageProbe, LinesProbe, UrlProbe,
                         HostProbe}
                   \cup {MultipartProbe(b) : b \in Bodies}
                   \cup {SectionsProbe(s) : s \in SectionedBodies}

Idle ==
    UNCHANGED <<connp, req_rest, res_rest, rough, coarse, last, ndist, nclose,
                res_base, res_fed, clean, pipelining>>

ParseStatus ==
    /\ probe.fn = "parse_status" /\ ~probe.applied
    /\ probe' = [probe EXCEPT !.applied = TRUE, !.out = parse_status(probe.input)]
    /\ Idle

\* One more line of the same header arrives in the message.
RepeatHeader ==
    /\ probe.fn = "process_header" /\ Len(probe.values) < MaxOccurrences
    /\ \E line \in HeaderLines(Len(probe.values) + 1) :
          \E h \in {parse_header_generic({}, line)} :
          \E r \in {process_header_generic(probe.headers, probe.reps, h)} :
             probe' = [probe EXCEPT !.values = Append(@, h.value),
                                    !.headers = r.headers,
                                    !.reps = r.reps]
    /\ Idle

\* The lines a message with several headers is made of: a header H at any
\* time, and up to MaxOther lines of a second header G and of Content-Length.
OtherLine == <<"G", ":", SP, "a", LF>>
LengthValues == {<<"1">>, <<"2">>, <<"x">>}
LengthLines ==
    {<<"C","o","n","t","e","n","t","-","L","e","n","g","t","h", ":", SP>>
        \o v \o <<LF>> : v \in LengthValues}
MessageLines(p) ==
    HeaderLines(MaxVaried + 1)
        \cup (IF p.others < MaxOther THEN {OtherLine} ELSE {})
        \cup (IF p.lengths < MaxOther THEN LengthLines ELSE {})

\* One more header line of a message is parsed and stored.
StoreHeader ==
    /\ probe.fn = "store_headers" /\ probe.n < MaxOccurrences
    /\ \E line \in MessageLines(probe) :
          \E h \in {parse_header_generic({}, line)} :
          \E r \in {process_header_generic(probe.headers, probe.reps, h)} :
             probe' = [fn |-> "store_headers", n |-> probe.n + 1,
                       others |-> probe.others
                                  + (IF line = OtherLine THEN 1 ELSE 0),
                       lengths |-> probe.lengths
                                  + (IF line \in LengthLines THEN 1 ELSE 0),
                       header |-> h, headers |-> r.headers, reps |-> r.reps,
                       logs |-> r.logs]
    /\ Idle

\* Header lines with and without anomalies: a well-formed one, one whose
\* value holds a NUL, an empty name, whitespace after the name, a name with
\* a separator in it, and a line without a colon.
AnomalyLines ==
    {<<"H", ":", SP, "a", LF>>, <<"H", ":", SP, "a", NUL, "b", LF>>,
     <<":", SP, "a", LF>>, <<"H", SP, ":", SP, "a", LF>>,
     <<"H", "@", ":", SP, "a", LF>>, <<"H", SP, "a", LF>>}

\* One more header line of a transaction is parsed and stored; the
\* transaction keeps its flags and its log.
ParseHeader ==
    /\ probe.fn = "parse_headers" /\ Len(probe.lines) < MaxLines
    /\ \E line \in AnomalyLines :
          \E h \in {parse_header_generic(probe.txflags, line)} :
          \E r \in {process_header_generic(probe.headers, probe.reps, h)} :
             probe' = [fn |-> "parse_headers",
                       lines |-> Append(probe.lines, line),
                       header |-> h, txflags |-> h.txflags,
                       headers |-> r.headers, reps |-> r.reps,
                       log |-> Append(probe.log, h.logs \cup r.logs)]
    /\ Idle

\* The next chunk of the body is parsed.
MultipartParse ==
    /\ probe.fn = "multipart" /\ probe.rest # <<>>
    /\ \E n \in BodyChunkLens(probe), oob \in BytesBehind :
          probe' = [probe EXCEPT
                       !.rest = Drop(@, n),
                       !.chunks = IF @ = <<>> THEN @ ELSE Tail(@),
                       !.fed = @ \o Take(probe.rest, n),
                       !.mp = htp_mpartp_parse(@, Take(probe.rest, n), oob)]
    /\ Idle

\* The body has ended.
MultipartFinalize ==
    /\ probe.fn = "multipart" /\ probe.rest = <<>> /\ ~probe.done
    /\ probe' = [probe EXCEPT !.done = TRUE, !.mp = htp_mpartp_finalize(@)]
    /\ Idle

\* A string is decoded under a configuration.
UrlDecode ==
    /\ probe.fn = "urldecode" /\ ~probe.applied
    /\ \E input \in UrlInputs, cfg \in DecoderConfigs :
          \E r \in {urldecode_ex(input, cfg)} :
             probe' = [fn |-> "urldecode", applied |-> TRUE, input |-> input,
                       cfg |-> cfg, out |-> r.out, flags |-> r.flags,
                       code |-> r.code, panic |-> r.panic]
    /\ Idle

\* A name is validated.
ValidateHostname ==
    /\ probe.fn = "validate_hostname" /\ ~probe.applied
    /\ \E input \in HostInputs :
          probe' = [fn |-> "validate_hostname", applied |-> TRUE,
                    input |-> input, out |-> validate_hostname(input)]
    /\ Idle

FnNext ==
    \/ ParseStatus
    \/ RepeatHeader
    \/ StoreHeader
    \/ ParseHeader
    \/ MultipartParse
    \/ MultipartFinalize
    \/ UrlDecode
    \/ ValidateHostname

FnSpec == FnInit /\ [][FnNext]_vars


(***************************************************************************)
(* Properties of the connection parser.                                    *)
(***************************************************************************)
DataOps == {"request_data", "response_data"}
Direction(op) == IF op = "request_data" THEN "request" ELSE "response"

\* The events of a call: state handlers that ran, what a handler answered,
\* the parser calls close() made.
HandlerRan(ev, dir) ==
    \E i \in 1..Len(ev) : ev[i][1] = "handler" /\ ev[i][2] = dir
HandlerSaid(ev, rc) == \E i \in 1..Len(ev) : ev[i] = <<"rc", rc>>
Calls(ev) == SelectSeq(ev, LAMBDA e : e[1] = "call")

\* d is c but for the log and the events of the call.
OnlyLogged(c, d) == [d EXCEPT !.logs = c.logs, !.ev = c.ev] = c

\* C1: once a direction's stream state is ERROR it stays ERROR.  A data call
\* for that direction returns ERROR without running a state handler or a
\* hook and without consuming a byte (nothing of the parser changes but its
\* log), and neither close() nor a call for the other direction changes the
\* state.
C1_ErrorStaysError ==
    [][ /\ (connp.request_status = "ERROR") =>
              /\ connp'.request_status = "ERROR"
              /\ (last'.op = "request_data") =>
                    /\ last'.rc = "ERROR"
                    /\ connp'.ev = <<>>
                    /\ OnlyLogged(connp, connp')
        /\ (connp.response_status = "ERROR") =>
              /\ connp'.response_status = "ERROR"
              /\ (last'.op = "response_data") =>
                    /\ last'.rc = "ERROR"
                    /\ connp'.ev = <<>>
                    /\ OnlyLogged(connp, connp') ]_vars

\* Bytes were offered to a response stream in ERROR.
C1_Witness ==
    /\ last.op = "response_data" /\ last.len > 0
    /\ last.pre_response_status = "ERROR"
    /\ last.rc = "ERROR"

\* C2: after close() returns, every direction that was not in ERROR is
\* CLOSED.
C2_ClosedAfterClose ==
    (last.op = "close") =>
        /\ (last.pre_request_status # "ERROR") => connp.request_status = "CLOSED"
        /\ (last.pre_response_status # "ERROR") => connp.response_status = "CLOSED"

\* C3: close() first sets both stream states to CLOSED, a state of ERROR
\* excepted, and only then calls the request parser and after it the
\* response parser, each once, with an empty chunk.  A parser processes an
\* empty chunk only when its direction is CLOSED.
C3_CloseThenFlush ==
    /\ (last.op = "close") =>
          LET ev == connp.ev
              calls == Calls(ev)
              closed(status) == IF status = "ERROR" THEN "ERROR" ELSE "CLOSED"
              second == CHOOSE i \in 2..Len(ev) : ev[i][1] = "call"
          IN /\ Len(calls) = 2
             /\ ev[1] = <<"call", "request_data",
                          closed(last.pre_request_status),
                          closed(last.pre_response_status)>>
             /\ calls[2][2] = "response_data"
             /\ \A i \in 1..Len(ev) :
                   (ev[i][1] = "handler") =>
                       IF ev[i][2] = "request" THEN i < second ELSE i > second
             /\ HandlerRan(ev, "request") => calls[1][3] = "CLOSED"
             /\ HandlerRan(ev, "response") => calls[2][4] = "CLOSED"
    /\ (last.op \in DataOps /\ last.len = 0 /\ ~last.gap) =>
          /\ (last.op = "request_data" /\ HandlerRan(connp.ev, "request"))
                => last.pre_request_status = "CLOSED"
          /\ (last.op = "response_data" /\ HandlerRan(connp.ev, "response"))
                => last.pre_response_status = "CLOSED"

\* close() flushed both parsers.
C3_Witness ==
    /\ last.op = "close"
    /\ HandlerRan(connp.ev, "request")
    /\ HandlerRan(connp.ev, "response")

\* C4: a hook that returns STOP stops its direction: the stream state
\* becomes STOP and the data call returns STOP.  From then on every data
\* call finds the direction in STOP, and one for that direction returns
\* STOP without running a state handler.
C4_StopStops ==
    [][ /\ (last'.op \in DataOps /\ last'.fault.rc = "STOP") =>
              /\ last'.rc = "STOP"
              /\ IF last'.op = "request_data"
                 THEN connp'.request_status = "STOP"
                 ELSE connp'.response_status = "STOP"
        /\ (connp.request_status = "STOP" /\ last'.op \in DataOps) =>
              /\ connp'.request_status = "STOP"
              /\ (last'.op = "request_data") =>
                    (last'.rc = "STOP" /\ ~HandlerRan(connp'.ev, "request"))
        /\ (connp.response_status = "STOP" /\ last'.op \in DataOps) =>
              /\ connp'.response_status = "STOP"
              /\ (last'.op = "response_data") =>
                    (last'.rc = "STOP" /\ ~HandlerRan(connp'.ev, "response")) ]_vars

\* C5: open() takes effect only when both directions are NEW, and then both
\* become OPEN.  Otherwise the call is logged and changes nothing else:
\* neither a stream state nor the endpoints of the connection.
C5_OpenOnlyWhenNew ==
    [][ (last'.op = "open") =>
           IF connp.request_status = "NEW" /\ connp.response_status = "NEW"
           THEN connp'.request_status = "OPEN" /\ connp'.response_status = "OPEN"
           ELSE /\ connp'.request_status = connp.request_status
                /\ connp'.response_status = connp.response_status
                /\ connp'.conn.client = connp.conn.client
                /\ connp'.conn.server = connp.conn.server
                /\ "CONNECTION_ALREADY_OPEN" \in connp'.logs
                /\ OnlyLogged(connp, connp') ]_vars

\* open() was called, with other endpoints, on a connection already open.
C5_Witness ==
    /\ last.op = "open"
    /\ last.pre_request_status # "NEW"
    /\ last.pre_conn.client # None
    /\ connp.conn.client = last.pre_conn.client

\* C6: a data call returns DATA_OTHER only with less consumed than the chunk
\* is long; when a state handler asks for the other stream with the whole
\* chunk consumed, the call returns DATA.
C6_DataOtherIsPartial ==
    /\ (last.op \in DataOps) =>
          /\ (last.rc = "DATA_OTHER") => last.consumed < last.len
          /\ (HandlerSaid(connp.ev, "DATA_OTHER") /\ ~last.gap
                /\ last.consumed >= last.len) => last.rc = "DATA"
    /\ (last.op = "close") => (last.rc # "DATA_OTHER" /\ last.rc2 # "DATA_OTHER")

\* A handler asked for the other stream at the very end of a chunk.
C6_Witness ==
    /\ last.op = "response_data" /\ last.len > 0
    /\ HandlerSaid(connp.ev, "DATA_OTHER")
    /\ last.consumed = last.len
    /\ last.rc = "DATA"

\* C7, as stated: PIPELINED is set exactly while more transactions exist
\* than have begun response parsing.
C7_AsStated ==
    ("PIPELINED" \in connp.conn.flags) <=> (Len(connp.txs) > Len(connp.res_begun))

\* C7, amended: PIPELINED is set exactly when a request began while an
\* earlier transaction had not yet begun response parsing, and stays set.
C7_PipelinedOnOverlap ==
    ("PIPELINED" \in connp.conn.flags) <=> pipelining

\* Two requests were under way before the first response.
C7_Witness ==
    /\ "PIPELINED" \in connp.conn.flags
    /\ Len(connp.txs) = 2

C9_ChunkSplitting ==
    (clean /\ res_fed # <<>> /\ res_rest = <<>>) =>
        \A one \in {response_data(res_base, DataChunk(res_fed))} :
            (one.rc # "DATA_OTHER") => Observable(connp) = Observable(one.c)

\* C10: a gap is handed to a state handler only in an identity body state,
\* the stream-close body state or FINALIZE.  In any other state of a
\* direction that still parses, no handler sees it, an error is logged, the
\* call returns CLOSED and the direction's stream is CLOSED.
C10_GapOnlyInBody ==
    (last.op \in DataOps /\ last.gap) =>
        LET dir == Direction(last.op)
            accepted == IF dir = "request" THEN {"BODY_IDENTITY", "FINALIZE"}
                        ELSE {"BODY_IDENTITY_CL_KNOWN",
                              "BODY_IDENTITY_STREAM_CLOSE", "FINALIZE"}
            before == IF dir = "request" THEN last.pre_request_status
                      ELSE last.pre_response_status
            after == IF dir = "request" THEN connp.request_status
                     ELSE connp.response_status
        IN /\ HandlerRan(connp.ev, dir) => last.pre_state \in accepted
           /\ (last.pre_state \notin accepted
                 /\ before \notin {"STOP", "ERROR", "TUNNEL"}) =>
                 /\ ~HandlerRan(connp.ev, dir)
                 /\ "INVALID_GAP" \in connp.logs
                 /\ last.rc = "CLOSED"
                 /\ after = "CLOSED"

\* The values v1, ..., vN joined by ", ".
RECURSIVE Joined(_)
Joined(values) ==
    IF Len(values) = 1 THEN values[1]
    ELSE Joined(SubSeq(values, 1, Len(values) - 1)) \o <<",", SP>>
         \o values[Len(values)]

\* The one entry the header table holds for the header with these values.
CoalescedTo(values) ==
    /\ Len(probe.headers) = 1
    /\ EqNoCase(probe.headers[1].name, <<"H">>)
    /\ probe.headers[1].value = Joined(values)
    /\ (Len(probe.values) >= 2 => "FIELD_REPEATED" \in probe.headers[1].flags)

Trimmed(s) ==
    LET a == Drop(s, PrefixLen(s, nom_is_space))
        n == IF \A i \in 1..Len(a) : nom_is_space(a[i]) THEN 0
             ELSE CHOOSE i \in 1..Len(a) :
                     /\ ~nom_is_space(a[i])
                     /\ \A j \in (i + 1)..Len(a) : nom_is_space(a[j])
    IN Take(a, n)

\* C20: parse_status returns Some(n) if and only if the input, stripped of
\* the whitespace around it, is exactly three decimal digits of value n in
\* 100..999; in every other case it returns None.
C20_ParseStatusThreeDigits ==
    (probe.fn = "parse_status" /\ probe.applied)
        => LET core == Trimmed(probe.input)
               three == Len(core) = 3 /\ \A i \in 1..3 : is_ascii_digit(core[i])
           IN IF three /\ DecValue(core) >= 100 /\ DecValue(core) <= 999
              THEN probe.out = DecValue(core)
              ELSE probe.out = None

\* C11: a gap accepted in a body state of the response adds its length to
\* the outbound counter of the connection and to the response message
\* length of the transaction, is handed to the body-data hooks, and feeds
\* no decoder.
C11_GapAccounting ==
    [][(/\ last'.op = "response_data" /\ last'.gap
        /\ connp.response_state \in
              {"BODY_IDENTITY_CL_KNOWN", "BODY_IDENTITY_STREAM_CLOSE"}
        /\ connp.response_status \notin {"STOP", "ERROR", "TUNNEL"})
       => LET idx == ResponseIndex(connp) + 1
              ev == connp'.ev
          IN /\ connp'.conn.out_data_counter =
                   connp.conn.out_data_counter + last'.len
             /\ connp'.txs[idx].response_message_len =
                   connp.txs[idx].response_message_len + last'.len
             /\ \E i \in 1..Len(ev) : ev[i] = <<"hook", "response_body_data">>
             /\ \A i \in 1..Len(ev) : ev[i][1] = "decoder" => ev[i][2] = 0]_vars

\* What either direction has buffered: the overflow buffer and the partial
\* header in flight.
Buffered(c, dir) ==
    IF dir = "request" THEN Len(c.request_buf) + Len(c.request_header)
    ELSE Len(c.response_buf) + Len(c.response_header)

\* C12: the data a direction has buffered never exceeds field_limit; the
\* call that would have to buffer more fails and the direction goes to ERROR.
C12_BufferWithinLimit ==
    /\ \A dir \in {"request", "response"} : Buffered(connp, dir) <= FieldLimit
    /\ "RESPONSE_FIELD_TOO_LONG" \in connp.logs => connp.response_status = "ERROR"
    /\ "REQUEST_FIELD_TOO_LONG" \in connp.logs => connp.request_status = "ERROR"
    /\ (last.op = "response_data" /\ last.pre_response_status # "ERROR"
          /\ "RESPONSE_FIELD_TOO_LONG" \in connp.logs) => last.rc = "ERROR"

\* A chunk ended in a header line too long to buffer.
C12_Witness ==
    /\ last.op = "response_data" /\ last.rc = "ERROR"
    /\ last.pre_state = "HEADERS"
    /\ "RESPONSE_FIELD_TOO_LONG" \in connp.logs
    /\ connp.response_status = "ERROR"
    /\ connp.conn.out_data_counter > FieldLimit

\* The call left everything but the cursor and the counters as it was.
Ignored(c, d) ==
    /\ d.txs = c.txs /\ d.logs = c.logs /\ d.ev = <<>>
    /\ d.request_state = c.request_state /\ d.response_state = c.response_state
    /\ d.request_buf = c.request_buf /\ d.response_buf = c.response_buf
    /\ d.request_header = c.request_header
    /\ d.response_header = c.response_header

InterimHeaderName == <<"i">>
FinalHeaderName == <<"f">>

\* The response has neither a Transfer-Encoding nor a Content-Length header.
Unframed(tx) ==
    /\ ~HasHeader(tx.response_headers, TransferEncodingName)
    /\ ~HasHeader(tx.response_headers, ContentLengthName)

\* C14: a response with status 100 and neither Transfer-Encoding nor
\* Content-Length is an interim response: its headers are discarded and the
\* parser goes back to the response line of the same transaction, so the
\* transaction proceeds past its headers only with the final response, whose
\* status and headers it then shows.  (A transaction still at its interim
\* headers is finalized only by close().)
C14_InterimDiscarded ==
    /\ \A i \in 1..Len(connp.txs) :
         LET tx == connp.txs[i] IN
         /\ tx.seen_100continue
               => ~HasHeader(tx.response_headers, InterimHeaderName)
         /\ (tx.seen_100continue /\ nclose = 0
               /\ ProgressRank(tx.response_progress) > ProgressRank("HEADERS"))
               => /\ tx.response_status_number = 200
                  /\ HasHeader(tx.response_headers, FinalHeaderName)
         /\ (tx.response_status_number = 100 /\ Unframed(tx) /\ nclose = 0)
               => ProgressRank(tx.response_progress)
                     <= ProgressRank("HEADERS")
    /\ (\E i \in 1..Len(connp.txs) : connp.txs[i].seen_100continue)
          => Len(connp.txs) = 1 /\ Len(connp.res_begun) = 1

\* The final response followed the interim one in the same transaction.
C14_Witness ==
    /\ Len(connp.txs) = 1 /\ res_rest = <<>> /\ nclose = 0
    /\ connp.txs[1].seen_100continue
    /\ connp.txs[1].response_status_number = 200
    /\ connp.txs[1].response_progress = "BODY"
    /\ HasHeader(connp.txs[1].response_headers, FinalHeaderName)
    /\ ~HasHeader(connp.txs[1].response_headers, InterimHeaderName)

\* The response states both a chunked Transfer-Encoding and a
\* Content-Length, and its framing has been determined.
ChunkedWithLength(tx) ==
    /\ HasHeader(tx.response_headers, TransferEncodingName)
    /\ IndexOfNoCase(GetHeader(tx.response_headers, TransferEncodingName).value,
                     <<"c","h","u","n","k","e","d">>) # 0
    /\ HasHeader(tx.response_headers, ContentLengthName)
    /\ ProgressRank(tx.response_progress) > ProgressRank("HEADERS")

\* The response is framed as chunked and flagged as request smuggling.
FramedChunked(tx) ==
    /\ tx.response_transfer_coding = "CHUNKED"
    /\ "REQUEST_SMUGGLING" \in tx.flags

\* The response has no body whatever its headers say.
Bodiless(tx) ==
    \/ tx.request_method_number = "HEAD"
    \/ (tx.request_method_number = "CONNECT"
          /\ in_range(tx.response_status_number, 200, 299))
    \/ in_range(tx.response_status_number, 100, 199)
    \/ tx.response_status_number \in {204, 304}

MultipartDetermined ==
    /\ last.op = "response_data"
    /\ \E k \in 1..Len(connp.ev) :
          connp.ev[k] = <<"handler", "response", "BODY_DETERMINE">>
    /\ \E i \in 1..Len(connp.txs) :
          /\ HasHeader(connp.txs[i].response_headers, ContentTypeName)
          /\ IndexOfNoCase(
                 GetHeader(connp.txs[i].response_headers, ContentTypeName).value,
                 MultipartByteranges) # 0

\* The response is refused as unsupported.
MultipartRefused ==
    /\ last.rc = "ERROR"
    /\ connp.response_status = "ERROR"
    /\ "RESPONSE_MULTIPART_BYTERANGES" \in connp.logs

\* C16 as stated: a response whose Content-Type is multipart/byteranges is
\* not supported, the call returns ERROR.
C16_AsStated == MultipartDetermined => MultipartRefused

\* C16: a response that may have a body, has neither a chunked
\* Transfer-Encoding nor a Content-Length, and whose Content-Type is
\* multipart/byteranges is not supported: the call returns ERROR and the
\* response direction is in ERROR.
C16_MultipartUnframed ==
    (/\ MultipartDetermined
     /\ \A i \in 1..Len(connp.txs) :
          /\ Unframed(connp.txs[i])
          /\ ~Bodiless(connp.txs[i]))
        => MultipartRefused

\* A multipart/byteranges response without framing headers was refused.
C16_Witness ==
    /\ MultipartDetermined /\ MultipartRefused
    /\ Len(connp.txs) = 1 /\ Unframed(connp.txs[1])
    /\ connp.txs[1].response_status_number = 200

\* The transaction stands for a request that was never seen.
Placeholder(tx) ==
    /\ tx.request_uri = RequestUriNotSeen
    /\ tx.request_progress = "COMPLETE"
    /\ tx.request_method_number = "UNKNOWN"
    /\ tx.request_headers = <<>>

\* The request of transaction idx had not started before the call.
Unrequested(c, idx) ==
    idx >= Len(c.txs) \/ c.txs[idx + 1].request_progress = "NOT_STARTED"

\* C17: when response bytes arrive for a transaction whose request has not
\* started, the transaction gets the placeholder URI
\* /libhtp::request_uri_not_seen, its request progress is COMPLETE, the
\* mismatch is logged, and the request side is moved off it: it is never the
\* transaction of the request parser, so the next request gets a transaction
\* of its own and the placeholder stays as it is.
C17_PlaceholderRequest ==
    /\ [][\A k \in 1..Len(connp'.res_begun) :
            (k > Len(connp.res_begun) /\ Unrequested(connp, connp'.res_begun[k]))
            => /\ last'.op = "response_data"
               /\ Placeholder(connp'.txs[connp'.res_begun[k] + 1])
               /\ "UNABLE_TO_MATCH_RESPONSE_TO_REQUEST" \in connp'.logs
               /\ connp'.in_tx # connp'.res_begun[k]]_vars
    /\ [](\A i \in 1..Len(connp.txs) :
            connp.txs[i].request_uri = RequestUriNotSeen
            => /\ Placeholder(connp.txs[i])
               /\ connp.in_tx # i - 1)

\* A response came first; the request that followed has its own transaction.
C17_Witness ==
    /\ Len(connp.txs) = 2
    /\ Placeholder(connp.txs[1])
    /\ connp.txs[1].response_status_number = 200
    /\ "UNABLE_TO_MATCH_RESPONSE_TO_REQUEST" \in connp.logs
    /\ ~Placeholder(connp.txs[2])
    /\ connp.txs[2].request_uri # <<>>
    /\ connp.txs[2].request_progress = "COMPLETE"

\* Event k of the call is a run of the hooks at one of the points.
HookAt(ev, k, points) == ev[k][1] = "hook" /\ ev[k][2] \in points

RawDataPoints == {"response_header_data", "response_trailer_data"}
ParsedPoints == {"response_headers", "response_trailer"}

\* C18: the raw header-data receiver is finalized strictly before the
\* headers or trailer hook of the transaction runs: the run of the
\* RESPONSE_HEADERS or RESPONSE_TRAILER hooks comes right after the last
\* header_data or trailer_data callback, no raw data is delivered after it
\* until the parser is at header lines again, and the receiver is removed
\* by then.
C18_ReceiverFinalizedFirst ==
    /\ \A k \in 1..Len(connp.ev) :
         HookAt(connp.ev, k, ParsedPoints)
         => /\ k > 1 /\ HookAt(connp.ev, k - 1, RawDataPoints)
            /\ (connp.ev[k][2] = "response_headers"
                  => connp.ev[k - 1][2] = "response_header_data")
            /\ \A j \in (k + 1)..Len(connp.ev) :
                  HookAt(connp.ev, j, RawDataPoints)
                  => \E i \in (k + 1)..(j - 1) :
                        connp.ev[i] = <<"handler", "response", "HEADERS">>
    /\ (\E k \in 1..Len(connp.ev) :
          /\ HookAt(connp.ev, k, ParsedPoints)
          /\ \A i \in (k + 1)..Len(connp.ev) :
                connp.ev[i] # <<"handler", "response", "HEADERS">>)
          => connp.response_data_receiver_hook = "none"

\* A call ran the headers hook right after the last raw header data and,
\* later, the trailer hook right after the last raw trailer data.
C18_Witness ==
    /\ connp.response_data_receiver_hook = "none"
    /\ \E k \in 2..Len(connp.ev) :
          /\ HookAt(connp.ev, k, {"response_trailer"})
          /\ HookAt(connp.ev, k - 1, {"response_trailer_data"})
          /\ \E j \in 2..(k - 2) :
                /\ HookAt(connp.ev, j, {"response_headers"})
                /\ HookAt(connp.ev, j - 1, {"response_header_data"})

\* The string has no '%' and no '+'.
Unencoded(s) == \A i \in 1..Len(s) : s[i] \notin {"%", "+"}

\* C21 as stated: decoding a string without '%' and '+' returns the input,
\* for every decoder configuration.
C21_AsStated ==
    (probe.fn = "urldecode" /\ probe.applied /\ Unencoded(probe.input))
        => ~probe.panic /\ probe.out = probe.input

\* C21: decoding a string without '%' and '+' returns the input for every
\* decoder configuration under which a raw NUL does not end the string;
\* under the others it returns the input up to its first NUL byte.
C21_UnencodedIsIdentity ==
    (probe.fn = "urldecode" /\ probe.applied /\ Unencoded(probe.input))
        => /\ ~probe.panic
           /\ probe.out =
                 IF probe.cfg.nul_raw_terminates /\ IndexOf(probe.input, NUL) # 0
                 THEN Take(probe.input, IndexOf(probe.input, NUL) - 1)
                 ELSE probe.input

\* A string with a raw NUL in it was decoded to itself.
C21_Witness ==
    /\ probe.fn = "urldecode" /\ probe.applied
    /\ probe.input = <<"a", NUL, "a">>
    /\ ~probe.cfg.nul_raw_terminates
    /\ probe.out = probe.input
    /\ "URLEN_RAW_NUL" \in probe.flags

\* The framing of a response was determined during the call that led to d.
Determined(d) ==
    \E k \in 1..Len(d.ev) : d.ev[k] = <<"handler", "response", "BODY_DETERMINE">>

\* The transaction is a CONNECT whose response, read past its status line,
\* is not 2xx.
RefusedConnect(tx) ==
    /\ tx.request_method_number = "CONNECT"
    /\ ProgressRank(tx.response_progress) > ProgressRank("LINE")
    /\ ~in_range(tx.response_status_number, 200, 299)

\* C22: when the response to a CONNECT turns out to be 407 or any other
\* non-2xx status, the request direction is unblocked: its stream state is
\* DATA unless it is ERROR.  The request parser, waiting after the CONNECT,
\* then goes on: the bytes that follow start a new transaction.  Neither
\* direction is in TUNNEL.
C22_RefusedConnectUnblocks ==
    /\ [][/\ (/\ last'.op = "response_data" /\ Determined(connp')
              /\ ResponseIndex(connp) < Len(connp.txs)
              /\ RefusedConnect(connp'.txs[ResponseIndex(connp) + 1])
              /\ ~RefusedConnect(connp.txs[ResponseIndex(connp) + 1])
                    \/ connp.response_state = "BODY_DETERMINE")
             => /\ connp'.request_status
                     = IF connp.request_status = "ERROR" THEN "ERROR" ELSE "DATA"
                /\ connp'.response_status # "TUNNEL"
          /\ (/\ last'.op = "request_data" /\ ~last'.gap /\ last'.len > 0
              /\ last'.fault = NoFault
              /\ connp.request_state = "CONNECT_WAIT_RESPONSE"
              /\ connp.request_status \notin {"STOP", "ERROR", "TUNNEL", "CLOSED"}
              /\ connp.in_tx # None
              /\ RefusedConnect(request(connp)))
             => /\ Len(connp'.txs) = Len(connp.txs) + 1
                /\ connp'.in_tx = Len(connp.txs)
                /\ request(connp).request_progress = "COMPLETE"
                /\ connp'.txs[connp.in_tx + 1].request_progress = "COMPLETE"
                /\ connp'.request_status # "TUNNEL"]_vars
    /\ []((\E i \in 1..Len(connp.txs) : RefusedConnect(connp.txs[i]))
             => /\ connp.request_status # "TUNNEL"
                /\ connp.response_status # "TUNNEL")

\* After the proxy asked for authentication the bytes that followed the
\* CONNECT began a second transaction.
C22_Witness ==
    /\ Len(connp.txs) = 2
    /\ RefusedConnect(connp.txs[1])
    /\ connp.txs[1].response_status_number = 407
    /\ connp.in_tx = 1
    /\ connp.request_status = "DATA"
    /\ req_rest = <<>>

\* The request the parser is at expects "100 Continue" before it sends its
\* body, of which nothing has been consumed.
AwaitsContinue(c) ==
    /\ c.in_tx # None
    /\ c.request_content_length > 0
    /\ c.request_body_data_left = c.request_content_length
    /\ HasHeader(request(c).request_headers, ExpectName)
    /\ GetHeader(request(c).request_headers, ExpectName).value = Continue100

\* C23: if a 4xx response is determined while the current request declared
\* a positive Content-Length, carries Expect: 100-continue and has had none
\* of its body consumed, the request parser is forced to FINALIZE; the
\* request then completes without a body and the inbound bytes that follow
\* start a new transaction.
C23_ExpectationFailed ==
    [][/\ (/\ last'.op = "response_data" /\ Determined(connp')
           /\ AwaitsContinue(connp)
           /\ ResponseIndex(connp) = connp.in_tx
           /\ ProgressRank(response(connp).response_progress)
                 <= ProgressRank("HEADERS")
           /\ in_range(connp'.txs[connp.in_tx + 1].response_status_number,
                       400, 499))
          => connp'.request_state = "FINALIZE"
       /\ (/\ last'.op = "request_data" /\ ~last'.gap /\ last'.len > 0
           /\ last'.fault = NoFault
           /\ AwaitsContinue(connp)
           /\ connp.request_state = "FINALIZE"
           /\ connp.request_status \notin {"STOP", "ERROR", "TUNNEL", "CLOSED"})
          => /\ connp'.txs[connp.in_tx + 1].request_progress = "COMPLETE"
             /\ connp'.txs[connp.in_tx + 1].request_body = <<>>
             /\ connp'.txs[connp.in_tx + 1].request_entity_len = 0
             /\ Len(connp'.txs) = Len(connp.txs) + 1
             /\ connp'.in_tx = Len(connp.txs)]_vars

\* The refused request completed without a body and the next one followed.
C23_Witness ==
    /\ Len(connp.txs) = 2
    /\ connp.txs[1].response_status_number = 401
    /\ connp.txs[1].request_progress = "COMPLETE"
    /\ connp.txs[1].request_body = <<>>
    /\ HasHeader(connp.txs[1].request_headers, ExpectName)
    /\ connp.txs[2].request_progress = "COMPLETE"
    /\ req_rest = <<>>

\* The response parser reads a body that ends with the stream, and its
\* stream has not ended nor failed.
ReadsUntilClose(c) ==
    /\ c.response_state = "BODY_IDENTITY_STREAM_CLOSE"
    /\ c.response_status \notin {"STOP", "ERROR", "TUNNEL", "CLOSED", "NEW"}
    /\ c.out_tx # None

\* close() called the response parser with its stream in CLOSED.
FlushedClosed(d) ==
    \E k \in 1..Len(d.ev) :
        /\ d.ev[k][1] = "call" /\ d.ev[k][2] = "response_data"
        /\ d.ev[k][4] = "CLOSED"

\* The response was framed as identity without a length: its body ends
\* with the stream.
UntilClose(tx) ==
    /\ tx.response_transfer_coding = "IDENTITY"
    /\ Unframed(tx)
    /\ in_range(tx.response_status_number, 200, 999)
    /\ tx.response_status_number \notin {204, 304}

\* C24: a response in BODY_IDENTITY_STREAM_CLOSE moves to FINALIZE if and
\* only if the response stream has been closed.  Before that every chunk is
\* consumed entirely as body and the handler asks for more data; the state
\* is left in no other call than close(), no such response completes in
\* another call, and after a close() that reaches the response parser with
\* its stream CLOSED the response progress of the transaction is COMPLETE.
C24_StreamCloseEndsBody ==
    [][/\ (/\ ReadsUntilClose(connp)
           /\ last'.op = "response_data" /\ ~last'.gap /\ last'.len > 0
           /\ last'.fault = NoFault)
          => /\ last'.rc = "DATA"
             /\ last'.consumed = last'.len
             /\ connp'.response_state = "BODY_IDENTITY_STREAM_CLOSE"
             /\ connp'.txs[connp.out_tx + 1].response_body
                   = response(connp).response_body \o Take(res_rest, last'.len)
             /\ connp'.txs[connp.out_tx + 1].response_progress = "BODY"
             /\ \A k \in 1..Len(connp'.ev) :
                   connp'.ev[k][1] = "handler"
                   => connp'.ev[k] = <<"handler", "response",
                                       "BODY_IDENTITY_STREAM_CLOSE">>
       /\ (/\ connp.response_state = "BODY_IDENTITY_STREAM_CLOSE"
           /\ connp'.response_state # "BODY_IDENTITY_STREAM_CLOSE")
          => last'.op = "close"
       /\ (\A i \in 1..Len(connp'.txs) :
             (/\ UntilClose(connp'.txs[i])
              /\ connp'.txs[i].response_progress = "COMPLETE"
              /\ i <= Len(connp.txs)
                    => connp.txs[i].response_progress # "COMPLETE")
             => last'.op = "close")
       /\ (ReadsUntilClose(connp) /\ last'.op = "close" /\ FlushedClosed(connp'))
          => /\ connp'.txs[connp.out_tx + 1].response_progress = "COMPLETE"
             /\ \E k \in 1..Len(connp'.ev) :
                   connp'.ev[k] = <<"handler", "response", "FINALIZE">>]_vars

\* close() ended a body that had been read up to the end of the stream.
C24_Witness ==
    /\ last.op = "close"
    /\ last.pre_state = "BODY_IDENTITY_STREAM_CLOSE"
    /\ Len(connp.txs) = 1
    /\ connp.txs[1].response_progress = "COMPLETE"
    /\ connp.txs[1].response_transfer_coding = "IDENTITY"
    /\ connp.txs[1].response_body = <<"a", "b">>

\* The transaction is at the headers of a status-100 response without
\* Transfer-Encoding and Content-Length, after an interim response.
SecondContinue(tx) ==
    /\ tx.seen_100continue
    /\ tx.response_status_number = 100
    /\ Unframed(tx)

\* The response direction failed on a second interim response.
ContinueRefused(d) ==
    /\ d.response_status = "ERROR"
    /\ "CONTINUE_ALREADY_SEEN" \in d.logs

\* C25: a second status-100 response without Transfer-Encoding and
\* Content-Length on a transaction whose seen_100continue is set is an
\* error: body determination fails, the call returns ERROR and the response
\* direction is in ERROR.
C25_SecondContinueIsError ==
    /\ [][/\ (/\ last'.op = "response_data" /\ Determined(connp')
              /\ ResponseIndex(connp) < Len(connp.txs)
              /\ response(connp).seen_100continue
              /\ SecondContinue(connp'.txs[ResponseIndex(connp) + 1]))
             => last'.rc = "ERROR" /\ ContinueRefused(connp')
          /\ (/\ last'.op = "response_data"
              /\ "CONTINUE_ALREADY_SEEN" \in connp'.logs \ connp.logs)
             => last'.rc = "ERROR" /\ ContinueRefused(connp')]_vars
    /\ []( /\ "CONTINUE_ALREADY_SEEN" \in connp.logs
              => connp.response_status = "ERROR"
           /\ (res_rest = <<>> /\ nclose = 0
                 /\ \E i \in 1..Len(connp.txs) : SecondContinue(connp.txs[i]))
              => ContinueRefused(connp))

\* The second interim response was refused where the framing is determined.
C25_Witness ==
    /\ last.op = "response_data" /\ last.rc = "ERROR"
    /\ Len(connp.txs) = 1
    /\ SecondContinue(connp.txs[1])
    /\ connp.response_state = "BODY_DETERMINE"
    /\ ContinueRefused(connp)
    /\ connp.txs[1].response_progress = "HEADERS"

\* The response is a 101 that names h2c in its Upgrade header and has
\* neither Transfer-Encoding nor Content-Length.
UpgradesToH2c(tx) ==
    /\ tx.response_status_number = 101
    /\ Unframed(tx)
    /\ HasHeader(tx.response_headers, UpgradeName)
    /\ IndexOfNoCase(GetHeader(tx.response_headers, UpgradeName).value, H2c) # 0

\* C26: a 101 response whose Upgrade header contains h2c and that has
\* neither Transfer-Encoding nor Content-Length sets is_http_2_upgrade on
\* the transaction and enters TUNNEL (the request direction too, unless it
\* is in ERROR); the bytes that follow are not parsed: the call returns
\* TUNNEL, no handler or hook runs and the transaction stays as it is,
\* until close().  A hook that fails ends the call in ERROR instead.
C26_Http2Upgrade ==
    /\ [][/\ (/\ last'.op = "response_data" /\ last'.fault = NoFault
              /\ Determined(connp')
              /\ connp.response_status # "TUNNEL"
              /\ ResponseIndex(connp) < Len(connp'.txs)
              /\ UpgradesToH2c(connp'.txs[ResponseIndex(connp) + 1]))
             => /\ connp'.txs[ResponseIndex(connp) + 1].is_http_2_upgrade
                /\ connp'.response_status = "TUNNEL"
                /\ connp'.request_status
                      = IF connp.request_status = "ERROR" THEN "ERROR"
                        ELSE "TUNNEL"
                /\ last'.rc = "TUNNEL"
          /\ (/\ last'.op = "response_data" /\ ~last'.gap /\ last'.len > 0
              /\ connp.response_status = "TUNNEL"
              /\ \E i \in 1..Len(connp.txs) : connp.txs[i].is_http_2_upgrade)
             => /\ last'.rc = "TUNNEL"
                /\ connp'.txs = connp.txs
                /\ connp'.ev = <<>>
                /\ connp'.response_state = connp.response_state
                /\ connp'.response_status = "TUNNEL"]_vars
    /\ [](\A i \in 1..Len(connp.txs) :
             connp.txs[i].is_http_2_upgrade
             => /\ connp.txs[i].response_status_number = 101
                /\ (Unframed(connp.txs[i]) /\ nclose = 0 /\ ndist = 0)
                      => connp.response_status = "TUNNEL")

\* Bytes arrived after the upgrade and were let through.
C26_Witness ==
    /\ Len(connp.txs) = 1
    /\ UpgradesToH2c(connp.txs[1])
    /\ connp.txs[1].is_http_2_upgrade
    /\ last.op = "response_data" /\ last.rc = "TUNNEL"
    /\ last.pre_response_status = "TUNNEL"
    /\ res_rest = <<>>

\* The framing of response i of c has been determined: the transaction has
\* had a status line and is past its headers, or the determination failed
\* on it.  (close() ends a
\* response at its headers without determining the framing.)
FramingDetermined(c, i) ==
    \/ /\ ProgressRank(c.txs[i].response_progress) > ProgressRank("HEADERS")
       /\ c.txs[i].response_protocol_number # "UNKNOWN"
    \/ /\ c.out_tx = i - 1 /\ c.response_state = "BODY_DETERMINE"
       /\ c.txs[i].response_progress = "HEADERS"
       /\ c.response_status = "ERROR"

\* Chunked coding is selected for the response.
ChunkedSelected(tx) ==
    /\ HasHeader(tx.response_headers, TransferEncodingName)
    /\ IndexOfNoCase(GetHeader(tx.response_headers, TransferEncodingName).value,
                     Chunked) # 0

\* The number a Content-Length value spells, None if it spells none.
LengthSpelled(value) ==
    IF Trimmed(value) # <<>> /\ \A k \in 1..Len(Trimmed(value)) :
                                   is_ascii_digit(Trimmed(value)[k])
    THEN DecValue(Trimmed(value)) ELSE None

\* The response is framed as identity with the length its header states.
FramedByLength(c, i) ==
    LET tx == c.txs[i]
        len == LengthSpelled(GetHeader(tx.response_headers, ContentLengthName).value)
    IN /\ len # None
       /\ tx.response_transfer_coding = "IDENTITY"
       /\ tx.response_content_length = len
       /\ Len(tx.response_body) <= len
       /\ c.out_tx = i - 1
             => \/ c.response_state = "BODY_IDENTITY_CL_KNOWN"
                   /\ c.response_body_data_left = len - Len(tx.response_body)
                \/ c.response_state \in {"FINALIZE", "IDLE"}
                   /\ Len(tx.response_body) = len

\* The response is framed as identity up to the close of the stream.
FramedUntilClose(c, i) ==
    LET tx == c.txs[i]
    IN /\ tx.response_transfer_coding = "IDENTITY"
       /\ tx.response_progress = "BODY"
       /\ c.out_tx = i - 1
       /\ c.response_state = "BODY_IDENTITY_STREAM_CLOSE"
       /\ c.response_body_data_left = -1

\* A response that no no-body rule applies to and for which chunked coding
\* is not selected, its framing determined, the stream not closed and no
\* byte of it lost.
PlainFraming(c, i) ==
    /\ nclose = 0 /\ ndist = 0
    /\ FramingDetermined(c, i)
    /\ ~Bodiless(c.txs[i])
    /\ ~ChunkedSelected(c.txs[i])

\* C27 as stated: such a response is framed by its Content-Length if it has
\* one and as identity-until-close if it has none.
C27_AsStated ==
    \A i \in 1..Len(connp.txs) :
        PlainFraming(connp, i)
        => IF HasHeader(connp.txs[i].response_headers, ContentLengthName)
           THEN FramedByLength(connp, i)
           ELSE FramedUntilClose(connp, i)

\* C27: when no no-body rule applies and chunked coding is not selected, a
\* response with a Content-Length header that states a number is framed as
\* identity with that known length, and a response without one whose
\* Content-Type is not multipart/byteranges is framed as
\* identity-until-close.
C27_IdentityFraming ==
    \A i \in 1..Len(connp.txs) :
        LET tx == connp.txs[i] IN
        PlainFraming(connp, i)
        => IF HasHeader(tx.response_headers, ContentLengthName)
           THEN LengthSpelled(GetHeader(tx.response_headers,
                                        ContentLengthName).value) # None
                   => FramedByLength(connp, i)
           ELSE ~(/\ HasHeader(tx.response_headers, ContentTypeName)
                  /\ IndexOfNoCase(
                        GetHeader(tx.response_headers, ContentTypeName).value,
                        MultipartByteranges) # 0)
                   => FramedUntilClose(connp, i)

\* A response with a length is in its body, one byte of two read.
C27_Witness ==
    /\ Len(connp.txs) = 1 /\ PlainFraming(connp, 1)
    /\ HasHeader(connp.txs[1].response_headers, ContentLengthName)
    /\ FramedByLength(connp, 1)
    /\ connp.txs[1].response_content_length = 2
    /\ connp.response_body_data_left = 1

\* A response without a length is in a body that ends with the stream.
C27_WitnessUntilClose ==
    /\ Len(connp.txs) = 1 /\ PlainFraming(connp, 1)
    /\ ~HasHeader(connp.txs[1].response_headers, ContentLengthName)
    /\ FramedUntilClose(connp, 1)
    /\ connp.txs[1].response_body = <<"a", "b">>

\* The handler of the given response state ran in the call.
StateRan(ev, state) ==
    \E k \in 1..Len(ev) : ev[k] = <<"handler", "response", state>>

\* The body of the response the parser is on has its declared length after
\* the step.
BodyComplete ==
    LET tx == connp'.txs[ResponseIndex(connp) + 1]
    IN Len(tx.response_body) = tx.response_content_length

\* A step in which the parser leaves BODY_IDENTITY_CL_KNOWN for FINALIZE,
\* no byte of the stream lost.
LeavesKnownLength ==
    /\ connp.response_state = "BODY_IDENTITY_CL_KNOWN"
    /\ last'.op \in {"response_data", "close"}
    /\ ndist' = 0
    /\ StateRan(connp'.ev, "FINALIZE")

\* C28 as stated: the state changes to FINALIZE only when the bytes consumed
\* as body are as many as the declared Content-Length.
C28_AsStated ==
    [][LeavesKnownLength => BodyComplete]_vars

\* A call with data or a gap for an open response stream whose parser is in
\* BODY_IDENTITY_CL_KNOWN, no hook misbehaving.
KnownLengthCall ==
    /\ last'.op = "response_data"
    /\ connp.response_state = "BODY_IDENTITY_CL_KNOWN"
    /\ connp.response_status \notin {"CLOSED", "ERROR", "STOP", "TUNNEL"}
    /\ last'.len > 0
    /\ last'.fault = NoFault

\* What such a call does with the chunk.
KnownLengthConsumes ==
    LET i == ResponseIndex(connp) + 1
        left == connp.response_body_data_left
        k == Min(last'.len, left)
        unexpected == "RESPONSE_BODY_UNEXPECTED" \in connp'.logs \ connp.logs
    IN /\ left > 0
       /\ connp'.ev[1] = <<"handler", "response", "BODY_IDENTITY_CL_KNOWN">>
       /\ IF last'.gap
          THEN connp'.ev[2] = <<"gap", last'.len>>
          ELSE /\ connp'.ev[2] = <<"decoder", k>>
               /\ \/ unexpected
                  \/ connp'.txs[i].response_body =
                        connp.txs[i].response_body \o Take(res_rest, k)
       /\ IF k < left
          THEN /\ connp'.response_state = "BODY_IDENTITY_CL_KNOWN"
               /\ connp'.response_body_data_left = left - k
               /\ connp'.txs[i].response_progress = "BODY"
               /\ last'.rc = "DATA"
               /\ ~StateRan(connp'.ev, "FINALIZE")
          ELSE /\ StateRan(connp'.ev, "FINALIZE")
               /\ connp'.response_state # "BODY_IDENTITY_CL_KNOWN"
               /\ (ndist' = 0 /\ ~unexpected) => BodyComplete

\* C28: while the response stream is not closed, in BODY_IDENTITY_CL_KNOWN
\* the parser consumes min(bytes available, bytes left) per call, the
\* remaining-length counter never goes below zero, and the state changes to
\* FINALIZE exactly when the total consumed as body equals the declared
\* Content-Length, leaving any later bytes of the chunk unconsumed for the
\* next response.
C28_KnownLengthBody ==
    [][/\ KnownLengthCall => KnownLengthConsumes
       /\ connp'.response_body_data_left >= -1
       /\ connp'.response_state = "BODY_IDENTITY_CL_KNOWN"
             => connp'.response_body_data_left > 0]_vars

\* The chunk that ends a body of one byte carried the first byte of the next
\* response: the body has its byte, the parser is in FINALIZE and holds the
\* other.
C28_Witness ==
    /\ last.op = "response_data" /\ last.len = 2
    /\ last.pre_state = "BODY_IDENTITY_CL_KNOWN"
    /\ connp.txs[1].response_content_length = 1
    /\ connp.txs[1].response_body = <<"a">>
    /\ connp.response_state = "FINALIZE"
    /\ connp.response_buf = <<"H">>

\* The response after a body of known length was read to its end.
C28_WitnessNext ==
    /\ Len(connp.txs) = 2
    /\ connp.txs[1].response_content_length = 1
    /\ connp.txs[1].response_body = <<"a">>
    /\ connp.txs[1].response_progress = "COMPLETE"
    /\ connp.txs[2].response_status_number = 204
    /\ connp.txs[2].response_progress = "COMPLETE"

\* A body of two bytes is half read.
C28_WitnessPartial ==
    /\ last.op = "response_data"
    /\ last.pre_state = "BODY_IDENTITY_CL_KNOWN"
    /\ connp.response_state = "BODY_IDENTITY_CL_KNOWN"
    /\ connp.response_body_data_left = 1

\* The bytes of a response stream after its first header block.
StreamBody(s) ==
    IF \E k \in 1..(Len(s) - 1) : s[k] = LF /\ s[k + 1] = LF
    THEN Drop(s, 1 + CHOOSE k \in 1..(Len(s) - 1) :
                    /\ s[k] = LF /\ s[k + 1] = LF
                    /\ \A j \in 1..(k - 1) : ~(s[j] = LF /\ s[j + 1] = LF))
    ELSE <<>>

\* The number of bytes of a chunked body up to the end of its first
\* chunk-length line of value 0; 0 if the bytes do not hold one.
RECURSIVE ZeroLineEnd(_)
ZeroLineEnd(b) ==
    LET i == IndexOf(b, LF)
        n == HexValue(Take(b, PrefixLen(b, is_ascii_hexdigit)))
        rest == Drop(b, i + n)
        j == IndexOf(rest, LF)
    IN IF i = 0 \/ PrefixLen(b, is_ascii_hexdigit) = 0 THEN 0
       ELSE IF n = 0 THEN i
       ELSE IF Len(b) < i + n \/ j = 0 \/ ZeroLineEnd(Drop(rest, j)) = 0 THEN 0
       ELSE i + n + j + ZeroLineEnd(Drop(rest, j))

\* The bytes fed after the chunk-length line of value 0.
AfterZeroLine ==
    Drop(StreamBody(res_fed), ZeroLineEnd(StreamBody(res_fed)))

\* C29: a chunk-length line that parses to 0 terminates the chunked body:
\* once it has been read the parser state is HEADERS with progress TRAILER,
\* and once the empty line that ends the trailer block has been read the
\* message is finalized.
C29_ZeroChunkTerminates ==
    (/\ clean /\ ndist = 0 /\ nclose = 0
     /\ Len(connp.txs) = 1
     /\ ChunkedSelected(connp.txs[1])
     /\ ZeroLineEnd(StreamBody(res_fed)) > 0)
    => /\ AfterZeroLine \in {<<>>, <<CR>>}
          => /\ connp.response_state = "HEADERS"
             /\ connp.txs[1].response_progress = "TRAILER"
       /\ AfterZeroLine \in {<<LF>>, <<CR, LF>>}
          => /\ connp.txs[1].response_progress = "COMPLETE"
             /\ connp.response_state = "IDLE"

\* A reading of the bytes of a chunked body up to its first chunk-length
\* line that begins with a byte that is neither a hexadecimal digit nor
\* white space: at is the number of bytes before that line (-1 if the bytes
\* hold none), data the chunk data before it.
RECURSIVE ReadChunks(_)
ReadChunks(b) ==
    LET nd == PrefixLen(b, is_ascii_hexdigit)
        i == IndexOf(b, LF)
        n == HexValue(Take(b, nd))
        rest == Drop(b, i + n)
        j == IndexOf(rest, LF)
        sub == ReadChunks(Drop(rest, j))
        none == [at |-> -1, data |-> <<>>]
    IN IF b = <<>> THEN none
       ELSE IF nd = 0
       THEN IF b[1] \in {SP, HT, CR, LF} THEN none ELSE [at |-> 0, data |-> <<>>]
       ELSE IF i = 0 \/ n = 0 \/ Len(b) < i + n \/ j = 0 THEN none
       ELSE IF sub.at < 0 THEN none
       ELSE [at |-> i + n + j + sub.at,
             data |-> SubSeq(b, i + 1, i + n) \o sub.data]

\* The first byte of such a line of the only response has been fed, whole
\* and in order.
InvalidLengthFed ==
    /\ clean /\ ndist = 0 /\ nclose = 0
    /\ Len(connp.txs) = 1
    /\ ChunkedSelected(connp.txs[1])
    /\ ReadChunks(StreamBody(res_fed)).at >= 0

\* The response is read as identity until close from that line on, with an
\* anomaly logged and no stream error.
SwitchedToIdentity ==
    LET r == ReadChunks(StreamBody(res_fed))
    IN /\ connp.txs[1].response_transfer_coding = "IDENTITY"
       /\ connp.response_state = "BODY_IDENTITY_STREAM_CLOSE"
       /\ "INVALID_RESPONSE_CHUNK_LEN" \in connp.logs
       /\ connp.response_status # "ERROR" /\ last.rc # "ERROR"
       /\ LET line == Drop(StreamBody(res_fed), r.at)
              body == connp.txs[1].response_body
          IN /\ Len(body) >= Len(line)
             /\ Drop(body, Len(body) - Len(line)) = line

\* C30: a chunk-length line whose leading bytes are not hexadecimal digits
\* switches the message to identity-until-close (transfer coding IDENTITY,
\* state BODY_IDENTITY_STREAM_CLOSE) with a logged anomaly instead of a
\* stream error, and the bytes of the offending line are then delivered as
\* body data.
C30_InvalidChunkLength ==
    InvalidLengthFed => SwitchedToIdentity

\* The same for a response whose first chunk-length line is the offending
\* one.
C30_FirstLineInvalid ==
    (InvalidLengthFed /\ ReadChunks(StreamBody(res_fed)).at = 0)
        => SwitchedToIdentity


\* The bytes begin with the given word, compared without case, after
\* optional white space.
BeginsWith(data, word) ==
    LET rest == Drop(data, PrefixLen(data, is_space))
    IN Len(rest) >= Len(word) /\ ToLower(Take(rest, Len(word))) = ToLower(word)

\* The first line of the first response, as far as it ends in the chunk of
\* the call: the bytes held back from earlier calls and the bytes of the
\* chunk up to its first line feed.
FirstLine ==
    connp.response_buf
        \o Take(res_rest, IndexOf(Take(res_rest, last'.len), LF))

\* A call in which the line parser of the first response reads a line that
\* is not blank and not longer than the field limit, no hook misbehaving.
ReadsLine ==
    /\ last'.op = "response_data" /\ ~last'.gap /\ last'.fault = NoFault
    /\ connp.response_status \notin {"CLOSED", "ERROR", "STOP", "TUNNEL"}
    /\ connp.response_state \in {"IDLE", "LINE"}
    /\ ResponseIndex(connp) = 0
    /\ connp.response_state = "IDLE" => connp.response_buf = <<>>
    /\ IndexOf(Take(res_rest, last'.len), LF) > 0
    /\ ~is_line_ignorable(FirstLine)
    /\ Len(FirstLine) <= FieldLimit

\* The first of the line and body-data hooks that the call ran.
FirstLineHook(ev) ==
    LET ks == {k \in 1..Len(ev) :
                  HookAt(ev, k, {"response_line", "response_body_data"})}
    IN IF ks = {} THEN "none"
       ELSE ev[CHOOSE k \in ks : \A j \in ks : k <= j][2]

\* The line was given to the body of the response and not parsed.
LineIsBody ==
    LET before == IF connp.txs = <<>> THEN <<>> ELSE connp.txs[1].response_body
        line == chomp(FirstLine)
    IN /\ FirstLineHook(connp'.ev) = "response_body_data"
       /\ Take(connp'.txs[1].response_body, Len(before) + Len(line))
             = before \o line

\* The line was parsed as a status line.
LineIsStatus ==
    /\ FirstLineHook(connp'.ev) = "response_line"
    /\ StateRan(connp'.ev, "HEADERS")

\* C31 as stated: a response line that does not begin with HTTP/ is treated
\* as body bytes.
C31_AsStated ==
    [][(ReadsLine /\ ~BeginsWith(chomp(FirstLine), <<"H","T","T","P","/">>))
          => LineIsBody]_vars

\* C31: a response line that does not begin with HTTP (compared
\* case-insensitively, after optional leading whitespace) is treated as body
\* bytes instead of being parsed as a status line; a line that does is
\* parsed as a status line.
C31_LineWithoutHttpIsBody ==
    [][ReadsLine
          => IF BeginsWith(chomp(FirstLine), <<"H","T","T","P">>)
             THEN LineIsStatus ELSE LineIsBody]_vars

\* The line of a reply without a status line went to the body.
C31_Witness ==
    /\ last.op = "response_data" /\ last.pre_state = "LINE"
    /\ Len(connp.txs) = 1
    /\ connp.txs[1].response_body = <<"o", "k">>
    /\ connp.txs[1].response_status_number = None
    /\ HandlerRan(connp.ev, "response")

\* A status line in small letters behind a blank and without a slash was
\* parsed.
C31_WitnessLax ==
    /\ res_fed = <<SP, "h", "t", "t", "p", SP, "2", "0", "0", LF>>
    /\ connp.response_state = "HEADERS"
    /\ connp.txs[1].response_progress = "HEADERS"
    /\ connp.txs[1].response_body = <<>>


\* The response progress of transaction i does not move backwards in the
\* step.
ProgressKept(i) ==
    ProgressRank(connp'.txs[i].response_progress)
        >= ProgressRank(connp.txs[i].response_progress)

\* The step puts transaction i, in the headers of a first interim 100
\* response, back to the response line.
BackToLine(i) ==
    /\ connp.txs[i].response_progress = "HEADERS"
    /\ connp'.txs[i].response_progress = "LINE"
    /\ connp.txs[i].response_status_number = 100
    /\ ~connp.txs[i].seen_100continue
    /\ connp'.txs[i].seen_100continue

\* C32 as stated: within a transaction, response_progress never moves
\* backwards.
C32_AsStated ==
    [][\A i \in 1..Len(connp.txs) : ProgressKept(i)]_vars

\* C32: within a transaction, response_progress never moves backwards along
\* NOT_STARTED, LINE, HEADERS, BODY, TRAILER, COMPLETE, except that a first
\* interim 100 response takes it from HEADERS back to LINE.
C32_ProgressMonotonic ==
    [][/\ Len(connp'.txs) >= Len(connp.txs)
       /\ \A i \in 1..Len(connp.txs) : ProgressKept(i) \/ BackToLine(i)]_vars

\* A response went through its line, headers and body to its end after an
\* interim response had put it back to the line.
C32_Witness ==
    /\ Len(connp.txs) = 1
    /\ connp.txs[1].seen_100continue
    /\ connp.txs[1].response_status_number = 200
    /\ connp.txs[1].response_progress = "COMPLETE"


\* The call determined the framing of a response that would unblock or
\* tunnel the request side: the refusal of a CONNECT, or a 101 response
\* without Transfer-Encoding and Content-Length.
TouchesRequestSide(c, d) ==
    /\ StateRan(d.ev, "BODY_DETERMINE")
    /\ LET tx == d.txs[ResponseIndex(c) + 1]
       IN \/ /\ tx.request_method_number = "CONNECT"
             /\ tx.response_status_number # None
             /\ ~in_range(tx.response_status_number, 200, 299)
          \/ /\ tx.response_status_number = 101
             /\ Unframed(tx)

\* C33: the response parser never changes the request direction's stream
\* state while that state is ERROR: a call for the response direction leaves
\* it ERROR, also where the response is the refusal of a CONNECT or a 101
\* response, which unblock the request (DATA) or tunnel it (TUNNEL)
\* otherwise.
C33_RequestErrorKept ==
    [][(last'.op = "response_data" /\ connp.request_status = "ERROR")
          => /\ connp'.request_status = "ERROR"
             /\ (TouchesRequestSide(connp, connp') /\ last'.fault = NoFault)
                   => connp'.request_status \notin {"DATA", "TUNNEL"}]_vars

\* A CONNECT was refused while the request direction was in ERROR.
C33_Witness ==
    /\ last.op = "response_data" /\ last.pre_request_status = "ERROR"
    /\ connp.request_status = "ERROR"
    /\ StateRan(connp.ev, "BODY_DETERMINE")
    /\ connp.txs[1].request_method_number = "CONNECT"
    /\ connp.txs[1].response_status_number = 404

\* A 101 response switched the response direction to the tunnel while the
\* request direction was in ERROR.
C33_WitnessUpgrade ==
    /\ last.op = "response_data" /\ last.pre_request_status = "ERROR"
    /\ connp.request_status = "ERROR"
    /\ connp.response_status = "TUNNEL"
    /\ connp.txs[1].response_status_number = 101


(***************************************************************************)
(* Repeated headers of one message (htp_request_generic.rs).               *)
(***************************************************************************)
\* A step that stores one more header line of the message.
StoresLine == probe.fn = "store_headers" /\ probe'.fn = "store_headers"
                 /\ probe'.n = probe.n + 1
\* The line stored by the step repeats a header the table already holds.
RepeatsHeader == HasHeader(probe.headers, probe'.header.name)
\* The entry the repeated header is stored in.
Stored == GetHeader(probe.headers, probe'.header.name)
LimitReached == probe.reps >= MaxHeaderRepetitions
Dropped == probe'.headers = probe.headers /\ probe'.reps = probe.reps

\* C34, as stated: once the repetition counter has reached 64, every further
\* repeated header is dropped: the stored value, the flags and the counter
\* stay as they are.
C34_AsStated ==
    [][(StoresLine /\ LimitReached /\ RepeatsHeader) => Dropped]_vars

\* C34, amended: once the repetition counter has reached 64, every further
\* occurrence of a header whose stored entry already carries FIELD_REPEATED
\* is dropped: the stored value, the flags and the counter stay as they are.
C34_RepeatedHeaderDropped ==
    [][(StoresLine /\ LimitReached /\ RepeatsHeader
          /\ "FIELD_REPEATED" \in Stored.flags) => Dropped]_vars

\* The counter stands at 64 after 66 lines of one header and the 67th line
\* has left the entry as it was.
C34_Witness ==
    /\ probe.fn = "store_headers"
    /\ probe.n = MaxHeaderRepetitions + 3
    /\ probe.reps = MaxHeaderRepetitions
    /\ Len(probe.headers) = 1
    /\ probe.headers[1].value = Joined([i \in 1..MaxHeaderRepetitions + 2 |-> <<"a">>])

\* With the counter at 64 a second header has been met a second time and
\* its value was appended.
C34_WitnessSecond ==
    /\ probe.fn = "store_headers"
    /\ probe.reps = MaxHeaderRepetitions
    /\ HasHeader(probe.headers, <<"G">>)
    /\ GetHeader(probe.headers, <<"G">>).value = <<"a", ",", SP, "a">>
    /\ probe.logs = {"HEADER_REPETITION"}


\* The line stored by the step is a Content-Length header.
StoresLength == EqNoCase(probe'.header.name, ContentLengthName)
\* The entry of the repeated header after the step.
StoredNext == GetHeader(probe'.headers, probe'.header.name)
\* The new value is not the number the stored value spells.
LengthDiffers ==
    \/ parse_content_length(Stored.value) = None
    \/ parse_content_length(probe'.header.value) = None
    \/ parse_content_length(Stored.value) # parse_content_length(probe'.header.value)
\* All the step changes in the table is the flags of the repeated entry.
OnlyFlagged ==
    /\ Len(probe'.headers) = Len(probe.headers)
    /\ \A i \in 1..Len(probe.headers) :
          /\ probe'.headers[i].name = probe.headers[i].name
          /\ probe'.headers[i].value = probe.headers[i].value
          /\ i # HeaderIndex(probe.headers, probe'.header.name)
                => probe'.headers[i] = probe.headers[i]

\* C35: a repeated Content-Length header is never appended to the stored
\* value: the value of the first occurrence is kept, the entry carries
\* FIELD_REPEATED, and a value that differs from the stored one or cannot be
\* parsed raises the duplicate Content-Length warning and changes nothing
\* else.
C35_LengthNotAppended ==
    [][(StoresLine /\ RepeatsHeader /\ StoresLength)
          => /\ StoredNext.value = Stored.value
             /\ "FIELD_REPEATED" \in StoredNext.flags
             /\ OnlyFlagged
             /\ LengthDiffers
                   => "DUPLICATE_CONTENT_LENGTH_FIELD" \in probe'.logs]_vars

\* Content-Length: 1 was followed by Content-Length: 2; the entry holds 1,
\* is flagged and the warning was raised.
C35_Witness ==
    /\ probe.fn = "store_headers" /\ probe.n = 2 /\ probe.lengths = 2
    /\ probe.header.value = <<"2">>
    /\ Len(probe.headers) = 1
    /\ probe.headers[1].value = <<"1">>
    /\ "FIELD_REPEATED" \in probe.headers[1].flags
    /\ "DUPLICATE_CONTENT_LENGTH_FIELD" \in probe.logs

\* The second Content-Length spells the same number: no duplicate warning.
C35_WitnessSame ==
    /\ probe.fn = "store_headers" /\ probe.n = 2 /\ probe.lengths = 2
    /\ probe.header.value = <<"1">>
    /\ probe.headers[1].value = <<"1">>
    /\ "FIELD_REPEATED" \in probe.headers[1].flags
    /\ probe.logs = {"HEADER_REPETITION"}


(***************************************************************************)
(* Anomalies of header lines (htp_request_generic.rs).                     *)
(***************************************************************************)
\* The warnings that report an anomaly of a header line.
AnomalyCodes ==
    {"INVALID_EMPTY_NAME", "HEADER_INVALID", "INVALID_LWS_AFTER_NAME",
     "FIELD_MISSING_COLON"}
\* How many of the transaction's lines raised the warning.
Warned(code) == Cardinality({i \in 1..Len(probe.log) : code \in probe.log[i]})

\* C36: for each kind of header anomaly (empty name, name with non-token
\* bytes, whitespace after the name, missing colon) at most one warning is
\* logged per transaction, however many lines exhibit it.
C36_OneWarningPerAnomaly ==
    probe.fn = "parse_headers" => \A code \in AnomalyCodes : Warned(code) <= 1

\* The two anomalies the transaction takes note of are warned of once.
C36_NotedAnomaliesOnce ==
    probe.fn = "parse_headers"
        => Warned("HEADER_INVALID") <= 1 /\ Warned("FIELD_MISSING_COLON") <= 1

\* Two lines without a colon, one warning.
C36_Witness ==
    /\ probe.fn = "parse_headers"
    /\ probe.lines = << <<"H", SP, "a", LF>>, <<"H", SP, "a", LF>> >>
    /\ Warned("FIELD_MISSING_COLON") = 1

\* The line has a colon, and before it a non-empty name of token bytes only.
WellFormed(line) ==
    \E c \in 2..Len(line) :
        /\ line[c] = ":"
        /\ \A i \in 1..c - 1 : line[i] # ":" /\ is_token(line[i])

\* C37: a header line with a colon, a non-empty name made only of token
\* bytes and no whitespace between the name and the colon is recorded
\* without the FIELD_INVALID flag.
C37_WellFormedNotInvalid ==
    (probe.fn = "parse_headers" /\ probe.lines # <<>>
        /\ WellFormed(probe.lines[Len(probe.lines)]))
        => "FIELD_INVALID" \notin probe.header.flags

\* A well-formed line does not mark the transaction and raises no anomaly
\* warning.
C37_WellFormedUnreported ==
    [][(probe.fn = "parse_headers" /\ probe'.fn = "parse_headers"
          /\ Len(probe'.lines) = Len(probe.lines) + 1
          /\ WellFormed(probe'.lines[Len(probe'.lines)]))
          => /\ probe'.txflags = probe.txflags
             /\ probe'.log[Len(probe'.log)] \cap AnomalyCodes = {}]_vars

\* The line H: a was recorded under the name H with the value a.
C37_Witness ==
    /\ probe.fn = "parse_headers"
    /\ probe.lines = << <<"H", ":", SP, "a", LF>> >>
    /\ probe.header.name = <<"H">> /\ probe.header.value = <<"a">>


(***************************************************************************)
(* The multipart parser (htp_multipart.rs).                                *)
(***************************************************************************)
\* The whole body has been given to the parser.
BodyFed == probe.fn = "multipart" /\ probe.rest = <<>> /\ probe.fed # <<>>
\* The body holds no boundary: every tentative match in it fails, and its
\* last byte is a data byte, so none is pending at its end.
MatchesFail(body) ==
    /\ \A i \in 1..Len(body) : body[i] # "b"
    /\ body[Len(body)] = "a"
\* The body ends with its first boundary, at the start of a line.
MatchCompletes(body) ==
    /\ Len(body) >= 3
    /\ SubSeq(body, Len(body) - 2, Len(body)) = <<"-", "-", "b">>
    /\ \A i \in 1..Len(body) - 1 : body[i] # "b"
    /\ Len(body) > 3 => body[Len(body) - 3] = LF
\* The bytes of the body that precede the line ending of its final boundary.
BeforeBoundary(body) ==
    LET y == Take(body, Len(body) - 3)
    IN IF y = <<>> THEN y
       ELSE IF Len(y) >= 2 /\ y[Len(y) - 1] = CR THEN Take(y, Len(y) - 2)
       ELSE Take(y, Len(y) - 1)

\* C38: the bytes withheld while a tentative boundary match spans the end
\* of a chunk are delivered to the current part exactly once and in their
\* original order if the match fails; if it completes, only the bytes before
\* the line ending of the boundary are delivered.  So, however the body is
\* cut into chunks, a body without a boundary is delivered as it is, and a
\* body that ends with its boundary is delivered up to that line ending.
C38_WithheldDelivered ==
    /\ (BodyFed /\ MatchesFail(probe.fed)) => probe.mp.delivered = probe.fed
    /\ (BodyFed /\ MatchCompletes(probe.fed))
          => probe.mp.delivered = BeforeBoundary(probe.fed)

\* No CR of the body is followed by another CR.
NoTwoCR(body) == \A i \in 1..Len(body) - 1 : ~(body[i] = CR /\ body[i + 1] = CR)

\* The same for the bodies in which no CR follows a CR.
C38_DeliveredUnlessTwoCR ==
    /\ (BodyFed /\ MatchesFail(probe.fed) /\ NoTwoCR(probe.fed))
          => probe.mp.delivered = probe.fed
    /\ (BodyFed /\ MatchCompletes(probe.fed) /\ NoTwoCR(probe.fed))
          => probe.mp.delivered = BeforeBoundary(probe.fed)

\* A CR set aside at the end of a chunk and a stored piece were delivered
\* after the match had failed.
C38_Witness ==
    /\ BodyFed /\ probe.fed = <<CR, LF, "-", "a">>
    /\ probe.mp.delivered = probe.fed
    /\ probe.mp.boundary_pieces = <<>> /\ ~probe.mp.cr_aside

\* A stored piece was dropped with its line ending when the match completed.
C38_WitnessMatch ==
    /\ BodyFed /\ probe.fed = <<"a", CR, LF, "-", "-", "b">>
    /\ probe.mp.delivered = <<"a">>
    /\ probe.mp.boundary_count = 1


\* The body holds, at its start or at the start of a line, the boundary
\* followed at once by two dashes.
LastBoundaryIn(body) ==
    \E i \in 1..Len(body) - 4 :
        /\ SubSeq(body, i, i + 4) = <<"-", "-", "b", "-", "-">>
        /\ i > 1 => body[i - 1] = LF
SeenLast(mp) == "SEEN_LAST_BOUNDARY" \in mp.flags
\* The parts created after the last boundary had been seen.
PartsAfterLast(mp) == {k \in 1..Len(mp.parts) : mp.parts[k].after_last}
Recognized(part) == part.type \in {"TEXT", "FILE"}

\* C39: SEEN_LAST_BOUNDARY is set only when a matched boundary is followed
\* at once by two dashes; once it is set, every further matched boundary and
\* every further part of a recognized type sets PART_AFTER_LAST_BOUNDARY,
\* and a single trailing part of unknown type becomes the epilogue and sets
\* HAS_EPILOGUE.
C39_LastBoundary ==
    probe.fn = "multipart" =>
       /\ SeenLast(probe.mp) => LastBoundaryIn(probe.fed)
       /\ (probe.done /\ \E k \in PartsAfterLast(probe.mp) :
                            Recognized(probe.mp.parts[k]))
             => "PART_AFTER_LAST_BOUNDARY" \in probe.mp.flags
       /\ (probe.done /\ \E k \in PartsAfterLast(probe.mp) :
                            /\ PartsAfterLast(probe.mp) = {k}
                            /\ ~Recognized(probe.mp.parts[k]))
             => /\ probe.mp.parts[Len(probe.mp.parts)].type = "EPILOGUE"
                /\ "HAS_EPILOGUE" \in probe.mp.flags

\* The same for the bodies cut between their sections, where no chunk ends
\* with the boundary.
C39_LastBoundaryInSections ==
    (probe.fn = "multipart" /\ probe.cut = "sections") => C39_LastBoundary

\* Once SEEN_LAST_BOUNDARY is set, a chunk in which a further boundary
\* matches sets PART_AFTER_LAST_BOUNDARY.
C39_FurtherBoundaryFlagged ==
    [][(probe.fn = "multipart" /\ probe'.fn = "multipart" /\ SeenLast(probe.mp)
          /\ probe'.mp.boundary_count > probe.mp.boundary_count)
          => "PART_AFTER_LAST_BOUNDARY" \in probe'.mp.flags]_vars

\* After the last boundary one part of unknown type came: it is the
\* epilogue.
C39_Witness ==
    /\ probe.fn = "multipart" /\ probe.done /\ SeenLast(probe.mp)
    /\ LastBoundaryIn(probe.fed)
    /\ Len(probe.mp.parts) = 2
    /\ probe.mp.parts[1].type = "TEXT"
    /\ probe.mp.parts[2].type = "EPILOGUE" /\ probe.mp.parts[2].after_last
    /\ "HAS_EPILOGUE" \in probe.mp.flags
    /\ "PART_AFTER_LAST_BOUNDARY" \notin probe.mp.flags

\* After the last boundary a text part came.
C39_WitnessPartAfter ==
    /\ probe.fn = "multipart" /\ probe.done /\ SeenLast(probe.mp)
    /\ probe.mp.boundary_count = 1
    /\ \E k \in PartsAfterLast(probe.mp) : probe.mp.parts[k].type = "TEXT"
    /\ "PART_AFTER_LAST_BOUNDARY" \in probe.mp.flags


\* A name has been validated and accepted.
Accepted == probe.fn = "validate_hostname" /\ probe.applied /\ probe.out
Bracketed(h) == h # <<>> /\ h[1] = "["
\* A label is what stands between two dots, before the first or after the
\* last one; an empty label is a dot at either end or two dots in a row.
EmptyLabelInside(h) ==
    h[1] = "." \/ \E i \in 1..Len(h) - 1 : h[i] = "." /\ h[i + 1] = "."
TrailingDot(h) == h[Len(h)] = "."
LabelsShort(h) ==
    \A i \in 1..Len(h) - MaxLabelLen :
        \E j \in i..i + MaxLabelLen : h[j] = "."
LabelsAlnum(h) ==
    \A i \in 1..Len(h) : h[i] \in {".", "-"} \/ is_alphanumeric(h[i])
NameConditions(h) ==
    /\ Len(h) \in 1..MaxHostnameLen
    /\ Bracketed(h) => \E i \in 2..Len(h) : h[i] = "]"
    /\ ~Bracketed(h) => ~EmptyLabelInside(h) /\ LabelsShort(h)
                          /\ LabelsAlnum(h)

\* C40 as stated: an accepted name has a length of 1..255, its closing
\* bracket if it is a bracketed literal, and otherwise no empty label, no
\* label longer than 63 bytes and only alphanumerics and '-' in its labels.
C40_AsStated ==
    Accepted => /\ NameConditions(probe.input)
                /\ ~Bracketed(probe.input) => ~TrailingDot(probe.input)

\* C40: an accepted name has a length of 1..255, its closing bracket if it
\* is a bracketed literal, and otherwise no empty label other than the one
\* after a single trailing dot, no label longer than 63 bytes and only
\* alphanumerics and '-' in its labels.
C40_AcceptedNames == Accepted => NameConditions(probe.input)

C40_Witness ==
    Accepted /\ probe.input = <<"a", ".", "1", "-">>
C40_WitnessTrailingDot ==
    Accepted /\ probe.input = <<"a", ".">>
C40_WitnessLongest ==
    Accepted /\ Len(probe.input) = MaxHostnameLen

====
